---------------------------- MODULE Spec2Model ----------------------------
(***************************************************************************)
(* A model of the hubble-install command line installer.                   *)
(*                                                                         *)
(* The module holds one state machine per part of the program:            *)
(*   SpecInstall  - GetInstaller / detectPackageManager and the parallel   *)
(*                  InstallDependencies of internal/platform               *)
(*   SpecFlash    - DarwinInstaller.FlashBoard and its output relays       *)
(*   SpecValidate - Config.Validate and validateCredentials                *)
(*   SpecMain     - the main flows and PromptForConfig                     *)
(* Every specification constrains all variables; the variables of the      *)
(* parts a specification does not run stay at their initial value.         *)
(***************************************************************************)
EXTENDS Integers, Sequences, FiniteSets, TLC

(***************************************************************************)
(* Part 1: GetInstaller, detectPackageManager, InstallDependencies         *)
(***************************************************************************)
VARIABLES
    goos,        \* runtime.GOOS of the run: "darwin" or "linux"
    path,        \* the executables exec.LookPath finds on the search path
    pkgManager,  \* LinuxInstaller.pkgManager
    ipc,         \* position of the goroutine that calls InstallDependencies
    tpc,         \* position of each install goroutine
    wg,          \* the sync.WaitGroup counter
    errChan,     \* the buffered error channel: its queued values
    errClosed,   \* whether close(errChan) has run
    result,      \* what InstallDependencies returned
    notices,     \* the "already installed" notices printed
    invoked,     \* history: the install actions that were invoked
    failed,      \* history: the install actions that returned an error
    seenPresent, \* history: the tasks whose executable was on the path at the check
    bootRan,     \* history: the bootstrap steps that ran
    bootErr,     \* history: the bootstrap returned an error
    cmdRan       \* history: the bootstrap commands run, each with its success

installVars == <<goos, path, pkgManager, ipc, tpc, wg, errChan, errClosed,
                 result, notices, invoked, failed, seenPresent, bootRan, bootErr,
                   cmdRan>>

(***************************************************************************)
(* Part 2 state: DarwinInstaller.FlashBoard and its stdout relay           *)
(***************************************************************************)
VARIABLES
    fpc,            \* position of the goroutine that runs FlashBoard
    proc,           \* the flash subprocess: "none", "running", "exitOk", "exitFail"
    written,        \* history: the lines the subprocess wrote to stdout
    pipe,           \* the lines in the stdout pipe that nobody has read yet
    pipeClosed,     \* cmd.Wait closed the read end of the pipe
    rpc,            \* position of the stdout relay goroutine
    scanBuf,        \* lines the bufio.Scanner has read and not yet returned
    echoed,         \* history: the lines the relay printed
    deviceNameChan, \* the single-slot channel: its queued values
    published,      \* history: the values the relay sent on deviceNameChan
    flashName,      \* the device name FlashBoard returned
    flashErr        \* the error FlashBoard returned

flashVars == <<fpc, proc, written, pipe, pipeClosed, rpc, scanBuf, echoed,
               deviceNameChan, published, flashName, flashErr>>

(***************************************************************************)
(* Part 3 state: package config (Config, PromptForConfig)                  *)
(* Strings of this part are sequences of character codes.                  *)
(***************************************************************************)
VARIABLES
    cfgVariant,    \* which PromptForConfig the build holds
    envCreds,      \* os.Getenv("HUBBLE_CREDENTIALS")
    envOrgID,      \* os.Getenv("HUBBLE_ORG_ID")
    envAPIToken,   \* os.Getenv("HUBBLE_API_TOKEN")
    cpc,           \* position inside PromptForConfig
    cfgOrgID,      \* Config.OrgID
    cfgAPIToken,   \* Config.APIToken
    cfgBoard,      \* Config.Board
    preConfigured, \* the boolean PromptForConfig returns
    cfgErr,        \* the error PromptForConfig returned
    validateErr,   \* the error Config.Validate returned
    credErr,       \* the error validateCredentials returned
    prompts        \* history: the interactive prompts issued

cfgVars == <<cfgVariant, envCreds, envOrgID, envAPIToken, cpc, cfgOrgID,
             cfgAPIToken, cfgBoard, preConfigured, cfgErr, validateErr,
             credErr, prompts>>

\* what PromptForConfig reads and never writes
cfgIn == <<cfgVariant, envCreds, envOrgID, envAPIToken>>

(***************************************************************************)
(* Part 4 state: main                                                      *)
(***************************************************************************)
VARIABLES
    mainVariant,   \* which main the build holds: "fixed" (main.go), "probe"
                   \* (six steps with the probe loop) or "board" (board-aware)
    cleanFlag,     \* -clean
    debugFlag,     \* -debug
    debugMode,     \* platform.debugMode
    mpc,           \* position inside main
    exitCode,      \* the status given to os.Exit
    exitAt,        \* history: the place os.Exit was called from
    calls,         \* history: the calls main made, in order
    errs,          \* history: the calls that returned an error
    steps,         \* history: the titles given to ui.PrintStep, in order
    shown,         \* history: the <<current, total>> given to ui.PrintStep
    currentStep,   \* currentStep
    totalSteps,    \* totalSteps
    missing,       \* the names in the list CheckPrerequisites returned
    selectedBoard, \* selectedBoard.ID
    requiresJLink  \* what selectedBoard.RequiresJLink() returns

mainIn == <<mainVariant, cleanFlag, debugFlag>>

mainVars == <<mainVariant, cleanFlag, debugFlag, debugMode, mpc, exitCode,
              exitAt, calls, errs, steps, shown, currentStep, totalSteps,
              missing, selectedBoard, requiresJLink>>

(***************************************************************************)
(* Part 5 state: ui.PromptChoice                                           *)
(***************************************************************************)
VARIABLES
    chOptions,   \* len(options)
    chPc,        \* position inside PromptChoice: "idle", "prompt", "returned", "exited"
    chLines,     \* history: the lines read from stdin, as ReadString returned them
    chRet        \* the value PromptChoice returned

choiceVars == <<chOptions, chPc, chLines, chRet>>

vars == <<installVars, flashVars, cfgVars, mainVars, choiceVars>>

\* the variables the actions of one part leave alone
notInstall == <<flashVars, cfgVars, mainVars, choiceVars>>
notFlash == <<installVars, cfgVars, mainVars, choiceVars>>
notCfg == <<installVars, flashVars, mainVars, choiceVars>>

Nil == "nil"

\* PackageManager iota constants
PackageManagerUnknown == 0
PackageManagerAPT == 1
PackageManagerYUM == 2
PackageManagerDNF == 3

\* a channel with room for one error only
ErrChanCapOne == 1

\* make(chan error, 2)
ErrChanCap == 2

Tasks == {"uv", "segger-jlink"}

\* the executable each install goroutine probes for
Executable(t) == IF t = "uv" THEN "uv" ELSE "JLinkExe"

Executables == {"apt-get", "dnf", "yum", "brew", "uv", "JLinkExe"}

commandExists(cmd) == cmd \in path

detectPackageManagerSwapped(p) ==
    IF "apt-get" \in p THEN PackageManagerAPT
    ELSE IF "yum" \in p THEN PackageManagerYUM
    ELSE IF "dnf" \in p THEN PackageManagerDNF
    ELSE PackageManagerUnknown

detectPackageManager(p) ==
    IF "apt-get" \in p THEN PackageManagerAPT
    ELSE IF "dnf" \in p THEN PackageManagerDNF
    ELSE IF "yum" \in p THEN PackageManagerYUM
    ELSE PackageManagerUnknown

InstallInit ==
    /\ goos \in {"darwin", "linux"}
    /\ path \in SUBSET Executables
    /\ pkgManager = PackageManagerUnknown
    /\ ipc = "start"
    /\ tpc = [t \in Tasks |-> "none"]
    /\ wg = 0
    /\ errChan = <<>>
    /\ errClosed = FALSE
    /\ result = "none"
    /\ notices = {}
    /\ invoked = {}
    /\ failed = {}
    /\ seenPresent = {}
    /\ bootRan = <<>>
    /\ bootErr = FALSE
    /\ cmdRan = <<>>


\* GetInstaller: NewDarwinInstaller / NewLinuxInstaller (which probes the
\* package manager once, at construction)
GetInstaller ==
    /\ ipc = "start"
    /\ pkgManager' = IF goos = "linux" THEN detectPackageManager(path)
                     ELSE PackageManagerUnknown
    /\ ipc' = "ready"
    /\ UNCHANGED <<goos, path, tpc, wg, errChan, errClosed, result, notices,
                   invoked, failed, seenPresent, bootRan, bootErr,
                   cmdRan>>
    /\ UNCHANGED notInstall

\* DarwinInstaller.InstallPackageManager as called from InstallDependencies.
\* outcome is what the environment does to the Homebrew bootstrap.
BrewOutcomes == {"sudoFail", "scriptFail", "noBrewBinary", "notInPath",
                 "notFunctional", "ok"}

DarwinInstallPackageManagerErr(outcome) ==
    CASE outcome = "sudoFail" -> "failed to obtain sudo access"
      [] outcome = "scriptFail" -> "failed to install Homebrew"
      [] outcome = "noBrewBinary" -> "could not find brew binary"
      [] outcome = "notInPath" -> "brew command not found in PATH"
      [] outcome = "notFunctional" -> "homebrew not functioning correctly"
      [] OTHER -> Nil

\* the commands InstallPackageManager runs when brew is absent: sudo -v, then
\* the Homebrew installation script unless sudo failed
DarwinBootstrapCommands(outcome) ==
    IF outcome = "sudoFail" THEN << <<"sudo", FALSE>> >>
    ELSE << <<"sudo", TRUE>>, <<"brewScript", outcome # "scriptFail">> >>

\* an InstallPackageManager that leaves the search path of the process alone
PathNotSetUp(p, outcome) == p

\* setupBrewPath (lines 108-111) puts the directory of brew on PATH; brew is
\* then found by exec.LookPath unless the check at line 114 says otherwise
PathAfterBootstrap(p, outcome) ==
    IF outcome \in {"notFunctional", "ok"} THEN p \cup {"brew"} ELSE p

\* InstallDependencies, darwin: lines 199-243 up to the two go statements
DarwinInstallDependenciesBegin ==
    /\ ipc = "ready"
    /\ goos = "darwin"
    /\ IF ~commandExists("brew")
       THEN \E outcome \in BrewOutcomes :
              LET err == DarwinInstallPackageManagerErr(outcome) IN
              /\ bootRan' = Append(bootRan, "InstallPackageManager")
              /\ cmdRan' = cmdRan \o DarwinBootstrapCommands(outcome)
              /\ path' = PathAfterBootstrap(path, outcome)
              /\ IF err # Nil
                 THEN /\ result' = err
                      /\ bootErr' = TRUE
                      /\ ipc' = "done"
                      /\ UNCHANGED <<tpc, wg>>
                 ELSE /\ tpc' = [t \in Tasks |-> "check"]
                      /\ wg' = 2
                      /\ ipc' = "wait"
                      /\ UNCHANGED <<result, bootErr>>
       ELSE /\ tpc' = [t \in Tasks |-> "check"]
            /\ wg' = 2
            /\ ipc' = "wait"
            /\ UNCHANGED <<path, result, bootErr, bootRan, cmdRan>>
    /\ UNCHANGED <<goos, pkgManager, errChan, errClosed, notices, invoked,
                   failed, seenPresent>>
    /\ UNCHANGED notInstall

\* an InstallPackageManager that accepts a host without a package manager
LinuxInstallPackageManagerErrAnyManager(sudoOk, pm) ==
    IF ~sudoOk THEN "failed to obtain sudo access" ELSE Nil

\* LinuxInstaller.InstallPackageManager (lines 103-131): the error it returns.
\* The exit status of the update command is ignored.
LinuxInstallPackageManagerErr(sudoOk, pm) ==
    IF ~sudoOk THEN "failed to obtain sudo access"
    ELSE IF pm \in {PackageManagerAPT, PackageManagerDNF, PackageManagerYUM}
    THEN Nil
    ELSE "unsupported package manager"

\* an InstallPackageManager that returns the error of the update command
UpdateErrReturned(updateOk) == IF updateOk THEN Nil ELSE "failed to update"

\* the error InstallPackageManager takes from cmd.Run() of the update command
\* (line 127): none, the result is discarded
UpdateErr(updateOk) == Nil

\* InstallDependencies, linux: lines 134-182 up to the two go statements
LinuxInstallDependenciesBegin ==
    /\ ipc = "ready"
    /\ goos = "linux"
    /\ \E sudo1 \in BOOLEAN, sudo2 \in BOOLEAN, updateOk \in BOOLEAN :
         IF ~sudo1
         THEN /\ bootRan' = Append(bootRan, "ensureSudoAccess")
              /\ cmdRan' = Append(cmdRan, <<"sudo", FALSE>>)
              /\ result' = "failed to obtain sudo access"
              /\ bootErr' = TRUE
              /\ ipc' = "done"
              /\ UNCHANGED <<tpc, wg>>
         ELSE LET pmErr == LinuxInstallPackageManagerErr(sudo2, pkgManager)
                  err == IF pmErr # Nil THEN pmErr ELSE UpdateErr(updateOk)
              IN
              /\ bootRan' = bootRan \o <<"ensureSudoAccess", "InstallPackageManager">>
              /\ cmdRan' = cmdRan \o << <<"sudo", TRUE>>, <<"sudo", sudo2>> >>
                              \o (IF pmErr = Nil
                                  THEN << <<"update", updateOk>> >> ELSE <<>>)
              /\ IF err # Nil
                 THEN /\ result' = err
                      /\ bootErr' = TRUE
                      /\ ipc' = "done"
                      /\ UNCHANGED <<tpc, wg>>
                 ELSE /\ tpc' = [t \in Tasks |-> "check"]
                      /\ wg' = 2
                      /\ ipc' = "wait"
                      /\ UNCHANGED <<result, bootErr>>
    /\ UNCHANGED <<goos, path, pkgManager, errChan, errClosed, notices, invoked,
                   failed, seenPresent>>
    /\ UNCHANGED notInstall

\* installJLink, lines 298-321: the installer format chosen by the switch on
\* l.pkgManager, whose default branch is the TGZ archive
JLinkFormat(pm) ==
    CASE pm = PackageManagerAPT -> "deb"
      [] pm \in {PackageManagerDNF, PackageManagerYUM} -> "rpm"
      [] OTHER -> "tgz"

\* what an install goroutine does when it finds its executable on the path
NeverSkips(t) == FALSE

SkipsWhenPresent(t) == commandExists(Executable(t))

\* an install goroutine, first half: the commandExists probe, and either the
\* "already installed" notice and return, or the start of the install action
TaskCheck(t) ==
    /\ tpc[t] = "check"
    /\ seenPresent' = IF commandExists(Executable(t))
                      THEN seenPresent \cup {t} ELSE seenPresent
    /\ IF SkipsWhenPresent(t)
       THEN /\ notices' = notices \cup {t}
            /\ tpc' = [tpc EXCEPT ![t] = "done"]
            /\ wg' = wg - 1
            /\ UNCHANGED invoked
       ELSE /\ invoked' = invoked \cup {t}
            /\ tpc' = [tpc EXCEPT ![t] = "installing"]
            /\ UNCHANGED <<notices, wg>>
    /\ UNCHANGED <<goos, path, pkgManager, ipc, errChan, errClosed, result,
                   failed, bootRan, bootErr,
                   cmdRan>>
    /\ UNCHANGED notInstall

TaskError(t) == IF t = "uv" THEN "failed to install uv"
                ELSE "failed to install segger-jlink"

\* an install goroutine, second half: the install action (runBrewInstall,
\* installPackage, installJLink) returns; on an error it is sent on errChan
TaskInstallReturns(t) ==
    /\ tpc[t] = "installing"
    /\ \E ok \in BOOLEAN, onPath \in BOOLEAN :
         IF ok
         THEN /\ path' = IF onPath THEN path \cup {Executable(t)} ELSE path
              /\ tpc' = [tpc EXCEPT ![t] = "done"]
              /\ wg' = wg - 1
              /\ UNCHANGED <<errChan, failed>>
         ELSE /\ onPath = FALSE
              /\ failed' = failed \cup {t}
              /\ UNCHANGED path
              /\ IF Len(errChan) < ErrChanCap
                 THEN /\ errChan' = Append(errChan, TaskError(t))
                      /\ tpc' = [tpc EXCEPT ![t] = "done"]
                      /\ wg' = wg - 1
                 ELSE \* the send blocks: nothing receives before the close
                      /\ tpc' = [tpc EXCEPT ![t] = "sending"]
                      /\ UNCHANGED <<errChan, wg>>
    /\ UNCHANGED <<goos, pkgManager, ipc, errClosed, result, notices, invoked,
                   seenPresent, bootRan, bootErr,
                   cmdRan>>
    /\ UNCHANGED notInstall

\* a wg.Wait() that returns while one goroutine is still running
WaitReturnsEarly(counter) == counter <= 1

\* sync.WaitGroup.Wait blocks until the counter is zero
WaitReturns(counter) == counter = 0

\* wg.Wait() returns and close(errChan)
InstallWaitClose ==
    /\ ipc = "wait"
    /\ WaitReturns(wg)
    /\ errClosed' = TRUE
    /\ ipc' = "range"
    /\ UNCHANGED <<goos, path, pkgManager, tpc, wg, errChan, result, notices,
                   invoked, failed, seenPresent, bootRan, bootErr,
                   cmdRan>>
    /\ UNCHANGED notInstall

RangeReturnsNil(ch) == Nil

\* a loop that keeps the last error it receives
RangeReturnsLast(ch) == IF ch = <<>> THEN Nil ELSE ch[Len(ch)]

\* for err := range errChan { if err != nil { return err } }; return nil
RECURSIVE RangeErrChan(_)
RangeErrChan(ch) ==
    IF ch = <<>> THEN Nil
    ELSE IF Head(ch) # Nil THEN Head(ch)
    ELSE RangeErrChan(Tail(ch))

InstallRange ==
    /\ ipc = "range"
    /\ errClosed
    /\ result' = RangeErrChan(errChan)
    /\ errChan' = IF errChan = <<>> THEN errChan ELSE Tail(errChan)
    /\ ipc' = "done"
    /\ UNCHANGED <<goos, path, pkgManager, tpc, wg, errClosed, notices,
                   invoked, failed, seenPresent, bootRan, bootErr,
                   cmdRan>>
    /\ UNCHANGED notInstall

\* the removals DarwinInstaller.CleanDependencies attempts, in order: brew
\* uninstall uv when uv is on the path, brew uninstall segger-jlink when
\* JLinkExe is, os.RemoveAll of the Homebrew cache when os.Stat finds it
CleanTargets(p, cacheExists) ==
    (IF "uv" \in p THEN <<"uv">> ELSE <<>>)
    \o (IF "JLinkExe" \in p THEN <<"segger-jlink">> ELSE <<>>)
    \o (IF cacheExists THEN <<"cache">> ELSE <<>>)

\* a CleanDependencies that reports only the error of its last removal
CleanErrLastOnly(ran) ==
    IF ran # <<>> /\ ~ran[Len(ran)][2]
    THEN "cleanup completed with errors" ELSE Nil

\* if len(errors) > 0 { return fmt.Errorf(...) }; return nil
CleanErr(ran) ==
    IF \E i \in DOMAIN ran : ~ran[i][2]
    THEN "cleanup completed with errors" ELSE Nil

\* DarwinInstaller.CleanDependencies; the removal of the uv cache directory
\* ignores its error and is left out
DarwinCleanDependencies ==
    /\ ipc = "ready"
    /\ goos = "darwin"
    /\ \E cacheExists \in BOOLEAN, ok \in [1..3 -> BOOLEAN] :
         LET targets == CleanTargets(path, cacheExists)
             ran == [i \in DOMAIN targets |-> <<targets[i], ok[i]>>]
             gone == {Executable(ran[i][1]) :
                        i \in {j \in DOMAIN ran :
                                 ran[j][2] /\ ran[j][1] \in Tasks}}
         IN  /\ cmdRan' = cmdRan \o ran
             /\ result' = CleanErr(ran)
             /\ path' = path \ gone
    /\ ipc' = "cleaned"
    /\ UNCHANGED <<goos, pkgManager, tpc, wg, errChan, errClosed, notices,
                   invoked, failed, seenPresent, bootRan, bootErr>>
    /\ UNCHANGED notInstall

InstallNext ==
    \/ GetInstaller
    \/ DarwinCleanDependencies
    \/ DarwinInstallDependenciesBegin
    \/ LinuxInstallDependenciesBegin
    \/ \E t \in Tasks : TaskCheck(t)
    \/ \E t \in Tasks : TaskInstallReturns(t)
    \/ InstallWaitClose
    \/ InstallRange

(***************************************************************************)
(* Part 2: DarwinInstaller.FlashBoard, streamOutputAndCaptureDeviceName    *)
(***************************************************************************)
Q == "\""

\* "Naming device"
Marker == <<"N", "a", "m", "i", "n", "g", " ", "d", "e", "v", "i", "c", "e">>

\* "your-device"
DefaultDeviceName == <<"y", "o", "u", "r", "-", "d", "e", "v", "i", "c", "e">>

\* make(chan string, 1)
DeviceNameChanCap == 1

\* the number of lines the subprocess writes at most
MaxLines == 2

\* the stdout lines the subprocess chooses from
Lines ==
    { <<"o", "k">>,                              \* ok
      <<Q, "a", Q>>,                             \* "a"
      Marker,                                    \* Naming device
      Marker \o <<" ", Q, "a">>,                 \* Naming device "a
      Marker \o <<" ", Q, Q>>,                   \* Naming device ""
      Marker \o <<" ", Q, "a", Q>>,              \* Naming device "a"
      Marker \o <<Q, "a", "a", Q, Q, "b", Q>>,   \* Naming device"aa""b"
      <<Q, "b", Q, " ">> \o Marker \o <<Q, "a", Q>>,  \* "b" Naming device"a"
      SubSeq(Marker, 1, Len(Marker) - 1) \o <<Q, "a", Q>>,  \* Naming devic"a"
      <<Q>> \o Marker \o <<Q>>,                  \* "Naming device"
      Marker \o <<Q, "a", Q, "a", Q>>,           \* Naming device"a"a"
      <<"a">> \o Marker \o <<Q, "b", Q>> }       \* aNaming device"b"

\* strings.Contains(s, sub)
Contains(s, sub) ==
    \E i \in 0..(Len(s) - Len(sub)) : SubSeq(s, i + 1, i + Len(sub)) = sub

\* strings.Index(s, c) for a one-character c: zero-based, -1 when absent
Index(s, c) ==
    IF \E i \in 1..Len(s) : s[i] = c
    THEN (CHOOSE i \in 1..Len(s) : s[i] = c /\ \A j \in 1..(i - 1) : s[j] # c) - 1
    ELSE -1

\* strings.LastIndex: what Index is not
LastIndex(s, c) ==
    IF \E i \in 1..Len(s) : s[i] = c
    THEN (CHOOSE i \in 1..Len(s) : s[i] = c /\ \A j \in (i + 1)..Len(s) : s[j] # c) - 1
    ELSE -1

\* the Go slice expression s[lo:hi]
Slice(s, lo, hi) == SubSeq(s, lo + 1, hi)

ExtractDeviceNameGreedy(line) ==
    IF Contains(line, Marker)
    THEN LET startQuote == Index(line, Q) IN
         IF startQuote # -1
         THEN LET endQuote == LastIndex(Slice(line, startQuote + 1, Len(line)), Q) IN
              IF endQuote # -1
              THEN Slice(line, startQuote + 1, startQuote + 1 + endQuote)
              ELSE <<>>
         ELSE <<>>
    ELSE <<>>

\* the device name streamOutputAndCaptureDeviceName takes from one line;
\* <<>> is the empty string, which is never sent
ExtractDeviceName(line) ==
    IF Contains(line, Marker)
    THEN LET startQuote == Index(line, Q) IN
         IF startQuote # -1
         THEN LET endQuote == Index(Slice(line, startQuote + 1, Len(line)), Q) IN
              IF endQuote # -1
              THEN Slice(line, startQuote + 1, startQuote + 1 + endQuote)
              ELSE <<>>
         ELSE <<>>
    ELSE <<>>

FlashInit ==
    /\ fpc = "start"
    /\ proc = "none"
    /\ written = <<>>
    /\ pipe = <<>>
    /\ pipeClosed = FALSE
    /\ rpc = "none"
    /\ scanBuf = <<>>
    /\ echoed = <<>>
    /\ deviceNameChan = <<>>
    /\ published = <<>>
    /\ flashName = <<>>
    /\ flashErr = "none"

\* FlashBoard up to the two go statements: exec.LookPath("uv"), the pipes,
\* cmd.Start, make(chan string, 1), go streamOutputAndCaptureDeviceName
FlashStart ==
    /\ fpc = "start"
    /\ \E started \in BOOLEAN :
         IF ~commandExists("uv")
         THEN /\ flashErr' = "uv not found in PATH"
              /\ fpc' = "done"
              /\ UNCHANGED <<proc, rpc>>
         ELSE IF ~started
         THEN /\ flashErr' = "failed to start flash command"
              /\ fpc' = "done"
              /\ UNCHANGED <<proc, rpc>>
         ELSE /\ proc' = "running"
              /\ rpc' = "scan"
              /\ fpc' = "wait"
              /\ UNCHANGED flashErr
    /\ UNCHANGED <<written, pipe, pipeClosed, scanBuf, echoed, deviceNameChan,
                   published, flashName>>
    /\ UNCHANGED notFlash

\* the subprocess writes one line to its stdout
ProcWrite ==
    /\ proc = "running"
    /\ Len(written) < MaxLines
    /\ \E line \in Lines :
         /\ written' = Append(written, line)
         /\ pipe' = Append(pipe, line)
    /\ UNCHANGED <<fpc, proc, pipeClosed, rpc, scanBuf, echoed, deviceNameChan,
                   published, flashName, flashErr>>
    /\ UNCHANGED notFlash

\* the subprocess exits
ProcExit ==
    /\ proc = "running"
    /\ \E ok \in BOOLEAN : proc' = IF ok THEN "exitOk" ELSE "exitFail"
    /\ UNCHANGED <<fpc, written, pipe, pipeClosed, rpc, scanBuf, echoed,
                   deviceNameChan, published, flashName, flashErr>>
    /\ UNCHANGED notFlash

\* scanner.Scan() needs data: one read of the pipe takes what is in it
RelayRead ==
    /\ rpc = "scan"
    /\ scanBuf = <<>>
    /\ ~pipeClosed
    /\ pipe # <<>>
    /\ scanBuf' = pipe
    /\ pipe' = <<>>
    /\ UNCHANGED <<fpc, proc, written, pipeClosed, rpc, echoed, deviceNameChan,
                   published, flashName, flashErr>>
    /\ UNCHANGED notFlash

\* select { case deviceNameChan <- deviceName: default: }
NonBlockingSend(ch, v) == IF Len(ch) < DeviceNameChanCap THEN Append(ch, v) ELSE ch

\* one turn of the relay's loop: the line is printed, searched, and the name
\* found is sent without blocking
RelayLine ==
    /\ rpc = "scan"
    /\ scanBuf # <<>>
    /\ LET line == Head(scanBuf)
           deviceName == ExtractDeviceName(line) IN
       /\ echoed' = Append(echoed, line)
       /\ scanBuf' = Tail(scanBuf)
       /\ IF deviceName # <<>>
          THEN /\ deviceNameChan' = NonBlockingSend(deviceNameChan, deviceName)
               /\ published' = IF Len(deviceNameChan) < DeviceNameChanCap
                                THEN Append(published, deviceName)
                                ELSE published
          ELSE UNCHANGED <<deviceNameChan, published>>
    /\ UNCHANGED <<fpc, proc, written, pipe, pipeClosed, rpc, flashName, flashErr>>
    /\ UNCHANGED notFlash

\* scanner.Scan() returns false: end of file (the subprocess has exited and
\* the pipe is drained) or a read on the pipe cmd.Wait has closed
RelayEnd ==
    /\ rpc = "scan"
    /\ scanBuf = <<>>
    /\ \/ pipeClosed
       \/ proc \in {"exitOk", "exitFail"} /\ pipe = <<>>
    /\ rpc' = "done"
    /\ UNCHANGED <<fpc, proc, written, pipe, pipeClosed, scanBuf, echoed,
                   deviceNameChan, published, flashName, flashErr>>
    /\ UNCHANGED notFlash

\* cmd.Wait() returns once the subprocess has exited; it closes the read end
\* of the pipes and does not wait for the relay goroutines
FlashWait ==
    /\ fpc = "wait"
    /\ proc \in {"exitOk", "exitFail"}
    /\ pipeClosed' = TRUE
    /\ pipe' = <<>>
    /\ IF proc = "exitFail"
       THEN /\ flashErr' = "flash command failed"
            /\ fpc' = "done"
       ELSE /\ fpc' = "select"
            /\ UNCHANGED flashErr
    /\ UNCHANGED <<proc, written, rpc, scanBuf, echoed, deviceNameChan,
                   published, flashName>>
    /\ UNCHANGED notFlash

\* select { case deviceName = <-deviceNameChan: default: "your-device" }
FlashSelect ==
    /\ fpc = "select"
    /\ IF deviceNameChan # <<>>
       THEN /\ flashName' = Head(deviceNameChan)
            /\ deviceNameChan' = Tail(deviceNameChan)
       ELSE /\ flashName' = DefaultDeviceName
            /\ UNCHANGED deviceNameChan
    /\ flashErr' = Nil
    /\ fpc' = "done"
    /\ UNCHANGED <<proc, written, pipe, pipeClosed, rpc, scanBuf, echoed, published>>
    /\ UNCHANGED notFlash

FlashNext ==
    \/ FlashStart
    \/ ProcWrite
    \/ ProcExit
    \/ RelayRead
    \/ RelayLine
    \/ RelayEnd
    \/ FlashWait
    \/ FlashSelect

\* the parts a specification does not run
InstallParked ==
    /\ goos = "darwin"
    /\ path \in {{}, {"brew", "uv", "JLinkExe"}}
    /\ pkgManager = PackageManagerUnknown
    /\ ipc = "ready"
    /\ tpc = [t \in Tasks |-> "none"]
    /\ wg = 0
    /\ errChan = <<>>
    /\ errClosed = FALSE
    /\ result = "none"
    /\ notices = {}
    /\ invoked = {}
    /\ failed = {}
    /\ seenPresent = {}
    /\ bootRan = <<>>
    /\ bootErr = FALSE
    /\ cmdRan = <<>>

(***************************************************************************)
(* Part 3: Config.Validate, validateCredentials                            *)
(***************************************************************************)

\* "org_"
StrOrgPrefix == <<111, 114, 103, 95>>

\* strings.HasPrefix
HasPrefix(str, prefix) ==
    Len(str) >= Len(prefix) /\ SubSeq(str, 1, Len(prefix)) = prefix

\* the first character of the token that is not 0-9, a-f, A-F; 0 when none
RECURSIVE FirstNonHex(_, _)
FirstNonHex(tok, i) ==
    IF i > Len(tok) THEN 0
    ELSE LET c == tok[i] IN
         IF ~((c >= 48 /\ c <= 57) \/ (c >= 97 /\ c <= 102) \/ (c >= 65 /\ c <= 70))
         THEN i
         ELSE FirstNonHex(tok, i + 1)

\* as FirstNonHex, with the upper-case range left out
RECURSIVE FirstNonLowerHex(_, _)
FirstNonLowerHex(tok, i) ==
    IF i > Len(tok) THEN 0
    ELSE LET c == tok[i] IN
         IF ~((c >= 48 /\ c <= 57) \/ (c >= 97 /\ c <= 102))
         THEN i
         ELSE FirstNonLowerHex(tok, i + 1)

validateCredentialsLowerOnly(orgID, apiToken) ==
    IF ~HasPrefix(orgID, StrOrgPrefix) THEN "org_id must start with 'org_'"
    ELSE IF Len(orgID) < 5 THEN "org_id is too short"
    ELSE IF Len(apiToken) < 32 THEN "api_token is too short"
    ELSE IF FirstNonLowerHex(apiToken, 1) # 0
    THEN "api_token must be a hexadecimal string"
    ELSE Nil

\* validateCredentials: the error it returns
validateCredentials(orgID, apiToken) ==
    IF ~HasPrefix(orgID, StrOrgPrefix) THEN "org_id must start with 'org_'"
    ELSE IF Len(orgID) < 5 THEN "org_id is too short"
    ELSE IF Len(apiToken) < 32 THEN "api_token is too short"
    ELSE IF FirstNonHex(apiToken, 1) # 0
    THEN "api_token must be a hexadecimal string"
    ELSE Nil

\* Config.Validate: the error it returns
Validate(orgID, apiToken, board) ==
    IF orgID = <<>> THEN "org ID is required"
    ELSE IF apiToken = <<>> THEN "API token is required"
    ELSE IF board = <<>> THEN "board selection is required"
    ELSE Nil

\* n copies of the character c
Rep(c, n) == [i \in 1..n |-> c]

\* the longest token tried
MaxTokenLen == 33

\* the characters next to the ends of the three accepted ranges
ProbeChars == {47, 48, 57, 58, 64, 65, 70, 71, 96, 97, 102, 103}

\* tokens around the length limit, with one probe character at either end
Tokens ==
    {Rep(48, n) : n \in {0, 1} \cup (31..MaxTokenLen)}
    \cup {[Rep(97, n) EXCEPT ![p] = c] :
             n \in 31..MaxTokenLen, p \in {1, 31}, c \in ProbeChars}

\* "", "o", "org", "org_", "org_1", "org_x1", "Org_1", "xorg_1", "org-1", "1org_"
OrgIDs ==
    { <<>>, <<111>>, <<111, 114, 103>>, <<111, 114, 103, 95>>,
      <<111, 114, 103, 95, 49>>, <<111, 114, 103, 95, 120, 49>>,
      <<79, 114, 103, 95, 49>>, <<120, 111, 114, 103, 95, 49>>,
      <<111, 114, 103, 45, 49>>, <<49, 111, 114, 103, 95>> }

\* "nrf21540dk", "nrf52840dk", "ticc2340r5"
StrNrf21540dk == <<110, 114, 102, 50, 49, 53, 52, 48, 100, 107>>
StrNrf52840dk == <<110, 114, 102, 53, 50, 56, 52, 48, 100, 107>>
StrTicc2340r5 == <<116, 105, 99, 99, 50, 51, 52, 48, 114, 53>>

\* the state of package config before PromptForConfig is called
CfgParked ==
    /\ cfgVariant = "prompt"
    /\ envCreds = <<>>
    /\ envOrgID = <<>>
    /\ envAPIToken = <<>>
    /\ cpc = "idle"
    /\ cfgOrgID = <<>>
    /\ cfgAPIToken = <<>>
    /\ cfgBoard = <<>>
    /\ preConfigured = FALSE
    /\ cfgErr = "none"
    /\ validateErr = "none"
    /\ credErr = "none"
    /\ prompts = <<>>

\* a Config with any of the fields tried, and no check made yet
ValidateInit ==
    /\ cfgVariant = "prompt"
    /\ envCreds = <<>>
    /\ envOrgID = <<>>
    /\ envAPIToken = <<>>
    /\ cpc = "idle"
    /\ cfgOrgID \in OrgIDs
    /\ cfgAPIToken \in Tokens
    /\ cfgBoard \in {<<>>, StrNrf52840dk}
    /\ preConfigured = FALSE
    /\ cfgErr = "none"
    /\ validateErr = "none"
    /\ credErr = "none"
    /\ prompts = <<>>

\* c.Validate()
ApplyValidate ==
    /\ cpc = "idle"
    /\ validateErr = "none"
    /\ validateErr' = Validate(cfgOrgID, cfgAPIToken, cfgBoard)
    /\ UNCHANGED <<cfgVariant, envCreds, envOrgID, envAPIToken, cpc, cfgOrgID,
                   cfgAPIToken, cfgBoard, preConfigured, cfgErr, credErr, prompts>>
    /\ UNCHANGED notCfg

\* validateCredentials(c.OrgID, c.APIToken)
ApplyValidateCredentials ==
    /\ cpc = "idle"
    /\ credErr = "none"
    /\ credErr' = validateCredentials(cfgOrgID, cfgAPIToken)
    /\ UNCHANGED <<cfgVariant, envCreds, envOrgID, envAPIToken, cpc, cfgOrgID,
                   cfgAPIToken, cfgBoard, preConfigured, cfgErr, validateErr,
                   prompts>>
    /\ UNCHANGED notCfg

ValidateNext ==
    \/ ApplyValidate
    \/ ApplyValidateCredentials

(***************************************************************************)
(* Part 3, continued: PromptForConfig                                      *)
(***************************************************************************)

\* "org_1"
StrOrg1 ==
    <<111, 114, 103, 95, 49>>

\* "0123456789abcdefABCDEF0123456789"
StrToken ==
    <<48, 49, 50, 51, 52, 53, 54, 55, 56, 57, 97, 98, 99, 100, 101, 102, 65,
       66, 67, 68, 69, 70, 48, 49, 50, 51, 52, 53, 54, 55, 56, 57>>

\* "0123"
StrShortToken ==
    <<48, 49, 50, 51>>

\* " org_1 "
StrOrgSpaced ==
    <<32, 111, 114, 103, 95, 49, 32>>

\* "acme"
StrBadOrg ==
    <<97, 99, 109, 101>>

\* base64 of org_1:<token>, "b3JnXzE6MDEyMzQ1Njc4OWFiY2RlZkFCQ0RFRjAxMjM0NTY3ODk="
EncOrgToken ==
    <<98, 51, 74, 110, 88, 122, 69, 54, 77, 68, 69, 121, 77, 122, 81, 49,
       78, 106, 99, 52, 79, 87, 70, 105, 89, 50, 82, 108, 90, 107, 70, 67,
       81, 48, 82, 70, 82, 106, 65, 120, 77, 106, 77, 48, 78, 84, 89, 51, 79,
       68, 107, 61>>

\* base64 of org_1:<token>:nrf52840dk,
\* "b3JnXzE6MDEyMzQ1Njc4OWFiY2RlZkFCQ0RFRjAxMjM0NTY3ODk6bnJmNTI4NDBkaw=="
EncOrgTokenBoard ==
    <<98, 51, 74, 110, 88, 122, 69, 54, 77, 68, 69, 121, 77, 122, 81, 49,
       78, 106, 99, 52, 79, 87, 70, 105, 89, 50, 82, 108, 90, 107, 70, 67,
       81, 48, 82, 70, 82, 106, 65, 120, 77, 106, 77, 48, 78, 84, 89, 51, 79,
       68, 107, 54, 98, 110, 74, 109, 78, 84, 73, 52, 78, 68, 66, 107, 97,
       119, 61, 61>>

\* base64 of " org_1 : <token>\n", followed by a newline
EncSpaced ==
    <<73, 71, 57, 121, 90, 49, 56, 120, 73, 68, 111, 103, 77, 68, 69, 121,
       77, 122, 81, 49, 78, 106, 99, 52, 79, 87, 70, 105, 89, 50, 82, 108,
       90, 107, 70, 67, 81, 48, 82, 70, 82, 106, 65, 120, 77, 106, 77, 48,
       78, 84, 89, 51, 79, 68, 107, 75, 10>>

\* base64 of "org_1", "b3JnXzE="
EncNoColon ==
    <<98, 51, 74, 110, 88, 122, 69, 61>>

\* base64 of ":<token>"
EncEmptyOrg ==
    <<79, 106, 65, 120, 77, 106, 77, 48, 78, 84, 89, 51, 79, 68, 108, 104,
       89, 109, 78, 107, 90, 87, 90, 66, 81, 107, 78, 69, 82, 85, 89, 119,
       77, 84, 73, 122, 78, 68, 85, 50, 78, 122, 103, 53>>

\* base64 of "org_1:0123", "b3JnXzE6MDEyMw=="
EncShortToken ==
    <<98, 51, 74, 110, 88, 122, 69, 54, 77, 68, 69, 121, 77, 119, 61, 61>>

\* base64 of org_1:<token> with the last two characters lost
EncTruncated ==
    <<98, 51, 74, 110, 88, 122, 69, 54, 77, 68, 69, 121, 77, 122, 81, 49,
       78, 106, 99, 52, 79, 87, 70, 105, 89, 50, 82, 108, 90, 107, 70, 67,
       81, 48, 82, 70, 82, 106, 65, 120, 77, 106, 77, 48, 78, 84, 89, 51, 79,
       68>>

\* "org_9"
StrOrg9 ==
    <<111, 114, 103, 95, 57>>

\* base64 of "org_9: ", "b3JnXzk6IA=="
EncEmptyToken ==
    <<98, 51, 74, 110, 88, 122, 107, 54, 73, 65, 61, 61>>

\* "b3Jn!zE6"
EncBadChar ==
    <<98, 51, 74, 110, 33, 122, 69, 54>>

\* "b3==JnXz"
EncPadInside ==
    <<98, 51, 61, 61, 74, 110, 88, 122>>

\* unicode.IsSpace for the characters below 128: \t \n \v \f \r and space
IsSpace(c) == c \in {9, 10, 11, 12, 13, 32}

\* strings.TrimSpace
RECURSIVE TrimLeft(_)
TrimLeft(s) ==
    IF s = <<>> THEN <<>>
    ELSE IF IsSpace(s[1]) THEN TrimLeft(Tail(s))
    ELSE s

RECURSIVE TrimRight(_)
TrimRight(s) ==
    IF s = <<>> THEN <<>>
    ELSE IF IsSpace(s[Len(s)]) THEN TrimRight(SubSeq(s, 1, Len(s) - 1))
    ELSE s

TrimSpace(s) == TrimRight(TrimLeft(s))

\* the index of the first ':' in s, 0 when there is none
FirstColon(s) ==
    IF \E i \in DOMAIN s : s[i] = 58
    THEN CHOOSE i \in DOMAIN s : s[i] = 58 /\ \A j \in 1..(i - 1) : s[j] # 58
    ELSE 0

\* strings.SplitN(s, ":", 2)
SplitN2(s) ==
    LET at == FirstColon(s)
    IN  IF at = 0 THEN <<s>>
        ELSE <<SubSeq(s, 1, at - 1), SubSeq(s, at + 1, Len(s))>>

\* the value of a character of the standard base64 alphabet, -1 for any other
B64Val(c) ==
    IF c >= 65 /\ c <= 90 THEN c - 65
    ELSE IF c >= 97 /\ c <= 122 THEN c - 71
    ELSE IF c >= 48 /\ c <= 57 THEN c + 4
    ELSE IF c = 43 THEN 62
    ELSE IF c = 47 THEN 63
    ELSE -1

\* the result of a decode that failed
B64Corrupt == [ok |-> FALSE, out |-> <<>>]

\* base64 decoding of four-character quanta: padding only ends the input
RECURSIVE DecodeQuanta(_)
DecodeQuanta(s) ==
    IF s = <<>> THEN [ok |-> TRUE, out |-> <<>>]
    ELSE LET a == B64Val(s[1])
             b == B64Val(s[2])
             c == B64Val(s[3])
             d == B64Val(s[4])
             last == Len(s) = 4
         IN  IF a < 0 \/ b < 0 THEN B64Corrupt
             ELSE IF s[3] = 61
             THEN IF last /\ s[4] = 61
                  THEN [ok |-> TRUE, out |-> <<a * 4 + (b \div 16)>>]
                  ELSE B64Corrupt
             ELSE IF c < 0 THEN B64Corrupt
             ELSE IF s[4] = 61
             THEN IF last
                  THEN [ok |-> TRUE,
                        out |-> <<a * 4 + (b \div 16),
                                  (b % 16) * 16 + (c \div 4)>>]
                  ELSE B64Corrupt
             ELSE IF d < 0 THEN B64Corrupt
             ELSE LET rest == DecodeQuanta(SubSeq(s, 5, Len(s)))
                  IN  IF rest.ok
                      THEN [ok |-> TRUE,
                            out |-> <<a * 4 + (b \div 16),
                                      (b % 16) * 16 + (c \div 4),
                                      (c % 4) * 64 + d>> \o rest.out]
                      ELSE B64Corrupt

\* base64.StdEncoding.DecodeString: \r and \n are skipped
DecodeString(s) ==
    LET t == SelectSeq(s, LAMBDA ch : ch \notin {10, 13})
    IN  IF Len(t) % 4 # 0 THEN B64Corrupt ELSE DecodeQuanta(t)

\* which code a variant of PromptForConfig holds
HasB64(v) == v \in {"b64", "b64v"}
HasEnv(v) == v # "prompt"
ValidatesNever(v) == FALSE
Validates(v) == v = "b64v"

\* the error of the format validation, Nil where the variant has none
FormatError(v, org, tok) ==
    IF Validates(v) THEN validateCredentials(org, tok) ELSE Nil

\* a HUBBLE_CREDENTIALS block that does not trim the two fields
FromCredentialsUntrimmed(v, creds) ==
    LET dec == DecodeString(creds)
        parts == IF dec.ok THEN SplitN2(dec.out) ELSE <<>>
    IN  IF HasB64(v) /\ creds # <<>> /\ Len(parts) = 2
        THEN [org |-> parts[1], tok |-> parts[2]]
        ELSE [org |-> <<>>, tok |-> <<>>]

\* what the HUBBLE_CREDENTIALS block makes of the variable
FromCredentials(v, creds) ==
    LET dec == DecodeString(creds)
        parts == IF dec.ok THEN SplitN2(dec.out) ELSE <<>>
    IN  IF HasB64(v) /\ creds # <<>> /\ Len(parts) = 2
        THEN [org |-> TrimSpace(parts[1]), tok |-> TrimSpace(parts[2])]
        ELSE [org |-> <<>>, tok |-> <<>>]

\* the values HUBBLE_CREDENTIALS takes
CredentialInputs ==
    { <<>>, EncOrgToken, EncOrgTokenBoard, EncSpaced, EncNoColon, EncEmptyOrg,
      EncEmptyToken, EncShortToken, EncTruncated, EncBadChar, EncPadInside }

\* what the user types at the credential prompts
OrgInputs == { <<>>, StrOrgSpaced, StrBadOrg }
TokenInputs == { <<>>, StrToken, StrShortToken }

\* how often one prompt is asked again
MaxAsk == 2

Count(s, x) == Cardinality({i \in DOMAIN s : s[i] = x})

\* os.Exit(code) at the place `at`
Exit(code, at) ==
    /\ exitCode' = code
    /\ exitAt' = at
    /\ mpc' = "exited"

\* PromptForConfig returns a configuration
CfgReturn(org, tok, pre) ==
    /\ cfgOrgID' = org
    /\ cfgAPIToken' = tok
    /\ preConfigured' = pre
    /\ cfgErr' = Nil
    /\ cpc' = "returned"

\* PromptForConfig returns nil and an error
CfgReturnError(err) ==
    /\ cfgOrgID' = <<>>
    /\ cfgAPIToken' = <<>>
    /\ preConfigured' = FALSE
    /\ cfgErr' = err
    /\ cpc' = "returned"

\* PromptForConfig up to its first prompt: HUBBLE_CREDENTIALS, then
\* HUBBLE_ORG_ID and HUBBLE_API_TOKEN
CfgCheckEnvironment ==
    /\ mpc = "config"
    /\ cpc = "start"
    /\ LET c == FromCredentials(cfgVariant, envCreds)
       IN  IF c.org # <<>> /\ c.tok # <<>>
           THEN IF FormatError(cfgVariant, c.org, c.tok) # Nil
                THEN CfgReturnError(FormatError(cfgVariant, c.org, c.tok))
                ELSE CfgReturn(c.org, c.tok, TRUE)
           ELSE IF HasEnv(cfgVariant) /\ envOrgID # <<>> /\ envAPIToken # <<>>
           THEN IF FormatError(cfgVariant, envOrgID, envAPIToken) # Nil
                THEN CfgReturnError(FormatError(cfgVariant, envOrgID, envAPIToken))
                ELSE CfgReturn(envOrgID, envAPIToken, HasB64(cfgVariant))
           ELSE /\ cfgOrgID' = c.org
                /\ cfgAPIToken' = c.tok
                /\ cpc' = "orgID"
                /\ UNCHANGED <<preConfigured, cfgErr>>
    /\ UNCHANGED <<cfgIn, cfgBoard, validateErr, credErr, prompts>>
    /\ UNCHANGED <<installVars, flashVars, choiceVars, mainVars>>

\* "Using Org ID from environment"
CfgUseEnvOrgID ==
    /\ mpc = "config"
    /\ cpc = "orgID"
    /\ HasEnv(cfgVariant) /\ envOrgID # <<>>
    /\ cfgOrgID' = envOrgID
    /\ cpc' = "apiToken"
    /\ UNCHANGED <<cfgIn, cfgAPIToken, cfgBoard, preConfigured, cfgErr,
                   validateErr, credErr, prompts>>
    /\ UNCHANGED <<installVars, flashVars, choiceVars, mainVars>>

\* one round of the "Enter your Hubble Org ID" loop
CfgPromptOrgID ==
    /\ mpc = "config"
    /\ cpc = "orgID"
    /\ ~(HasEnv(cfgVariant) /\ envOrgID # <<>>)
    /\ prompts' = Append(prompts, "orgID")
    /\ \/ /\ Exit(1, "promptRead")
          /\ UNCHANGED <<cpc, cfgOrgID>>
       \/ \E input \in OrgInputs :
            LET orgID == TrimSpace(TrimSpace(input))
            IN  /\ orgID = <<>> => Count(prompts, "orgID") + 1 < MaxAsk
                /\ cfgOrgID' = IF orgID # <<>> THEN orgID ELSE cfgOrgID
                /\ cpc' = IF orgID # <<>> THEN "apiToken" ELSE "orgID"
                /\ UNCHANGED <<mpc, exitCode, exitAt>>
    /\ UNCHANGED <<cfgIn, cfgAPIToken, cfgBoard, preConfigured, cfgErr,
                   validateErr, credErr>>
    /\ UNCHANGED <<installVars, flashVars, choiceVars, mainIn, debugMode, calls, errs,
                   steps, shown, currentStep, totalSteps, missing, selectedBoard,
                   requiresJLink>>

\* the end of PromptForConfig once both fields are filled
CfgFinish(org, tok) ==
    IF FormatError(cfgVariant, org, tok) # Nil
    THEN CfgReturnError(FormatError(cfgVariant, org, tok))
    ELSE CfgReturn(org, tok, FALSE)

\* "Using API Token from environment"
CfgUseEnvAPIToken ==
    /\ mpc = "config"
    /\ cpc = "apiToken"
    /\ HasEnv(cfgVariant) /\ envAPIToken # <<>>
    /\ CfgFinish(cfgOrgID, envAPIToken)
    /\ UNCHANGED <<cfgIn, cfgBoard, validateErr, credErr, prompts>>
    /\ UNCHANGED <<installVars, flashVars, choiceVars, mainVars>>

\* one round of the "Enter your Hubble API Token" loop
CfgPromptAPIToken ==
    /\ mpc = "config"
    /\ cpc = "apiToken"
    /\ ~(HasEnv(cfgVariant) /\ envAPIToken # <<>>)
    /\ prompts' = Append(prompts, "apiToken")
    /\ \/ /\ Exit(1, "promptRead")
          /\ UNCHANGED <<cpc, cfgOrgID, cfgAPIToken, preConfigured, cfgErr>>
       \/ \E input \in TokenInputs :
            LET apiToken == TrimSpace(TrimSpace(input))
            IN  /\ apiToken = <<>> => Count(prompts, "apiToken") + 1 < MaxAsk
                /\ IF apiToken # <<>>
                   THEN CfgFinish(cfgOrgID, apiToken)
                   ELSE UNCHANGED <<cpc, cfgOrgID, cfgAPIToken, preConfigured,
                                    cfgErr>>
                /\ UNCHANGED <<mpc, exitCode, exitAt>>
    /\ UNCHANGED <<cfgIn, cfgBoard, validateErr, credErr>>
    /\ UNCHANGED <<installVars, flashVars, choiceVars, mainIn, debugMode, calls, errs,
                   steps, shown, currentStep, totalSteps, missing, selectedBoard,
                   requiresJLink>>

(***************************************************************************)
(* Part 4: main                                                            *)
(***************************************************************************)

\* exitCode while the process runs
NoExit == -1

\* a board list with an entry that has no ID
AvailableBoardsWithBlank == <<StrNrf21540dk, <<>>, StrTicc2340r5>>

\* boards.AvailableBoards, by ID
AvailableBoards == <<StrNrf21540dk, StrNrf52840dk, StrTicc2340r5>>

\* boards.GetBoard(id) finds a board
GetBoardFinds(id) == \E i \in DOMAIN AvailableBoards : AvailableBoards[i] = id

\* selectedBoard.RequiresJLink()
RequiresJLink == requiresJLink

\* runtime.GOOS values with an installer
SupportedGOOS == {"darwin", "linux", "windows"}

\* what an installer call that runs external commands can return
Outcomes(os) == IF os = "windows" THEN {"err"} ELSE {"ok", "err"}

\* a step whose error is never looked at
StepNeverFails(outcome) == FALSE

\* `if err != nil` after a step
StepFails(outcome) == outcome = "err"

\* the exit status of the clean branch after CleanDependencies
CleanExitAlwaysZero(outcome) == 0
CleanExit(outcome) == IF StepFails(outcome) THEN 1 ELSE 0

\* a CheckPrerequisites that reports a tool missing whether or not it is there
FullMissingAlways(os) == {"uv", "segger-jlink"}

\* the dependencies CheckPrerequisites() reports missing
FullMissing(os) ==
    (IF os = "darwin" /\ ~commandExists("brew") THEN {"Homebrew"} ELSE {})
    \cup (IF ~commandExists("uv") THEN {"uv"} ELSE {})
    \cup (IF ~commandExists("JLinkExe") THEN {"segger-jlink"} ELSE {})

\* CheckPrerequisites returns an error
PrerequisitesFail(os) ==
    \/ os = "windows"
    \/ os = "linux" /\ pkgManager = PackageManagerUnknown

\* CheckPrerequisites(requiredDeps): the missing ones among the required
CheckPrerequisitesRequired(os) == SUBSET FullMissing(os)

\* an install step that is counted and run whatever the missing list holds
NeedsInstallAlways(m) == TRUE

\* `if len(missing) > 0` around the install prompt and the install step
NeedsInstall(m) == Cardinality(m) > 0

\* a probe step that does not look at the board
AlwaysProbes == mainVariant # "fixed"

\* the probe step: unconditional in the main with the fixed count of six and a
\* probe step, under `if selectedBoard.RequiresJLink()` in the board-aware one
NeedsProbe ==
    \/ mainVariant = "probe"
    \/ mainVariant = "board" /\ RequiresJLink

\* the position after the install step
AfterInstall ==
    IF mainVariant = "fixed" THEN "confirm"
    ELSE IF NeedsProbe THEN "probe"
    ELSE "validate"

\* the position after the probe loop
AfterProbe == IF mainVariant = "probe" THEN "config" ELSE "validate"

\* a call of the installer, or of config, is recorded
Call(name) == calls' = Append(calls, name)

\* ui.PrintStep(title, ...)
PrintStep(title, current) ==
    /\ steps' = Append(steps, title)
    /\ shown' = Append(shown, <<current, totalSteps>>)

\* the number of a step: a literal in main.go, currentStep++ elsewhere
StepNo(n) == IF mainVariant = "fixed" THEN n ELSE currentStep + 1

\* what a call returned: "ok" for a nil error, "err" for any other
Returned(name, outcome) ==
    errs' = IF outcome = "err" THEN errs \cup {name} ELSE errs

ErrOutcome(err) == IF err # Nil THEN "err" ELSE "ok"

\* flag.Parse, SetDebugMode(debugFlag), and the branch on cleanFlag
MainParseFlags ==
    /\ mpc = "start"
    /\ debugMode' = debugFlag
    /\ mpc' = IF cleanFlag THEN "clean"
              ELSE IF mainVariant = "board" THEN "ready"
              ELSE "getInstaller"
    /\ UNCHANGED <<mainIn, exitCode, exitAt, calls, errs, steps, shown, currentStep,
                   totalSteps, missing, selectedBoard, requiresJLink>>
    /\ UNCHANGED <<installVars, flashVars, choiceVars, cfgVars>>

\* clean branch: SetDebugMode(true), GetInstaller
MainCleanBegin ==
    /\ mpc = "clean"
    /\ debugMode' = TRUE
    /\ Call("GetInstaller")
    /\ IF goos \in SupportedGOOS
       THEN /\ pkgManager' = IF goos = "linux" THEN detectPackageManager(path)
                             ELSE PackageManagerUnknown
            /\ ipc' = "ready"
            /\ mpc' = "cleanDeps"
            /\ UNCHANGED <<exitCode, exitAt, errs>>
       ELSE /\ errs' = errs \cup {"GetInstaller"}
            /\ Exit(1, "GetInstaller")
            /\ UNCHANGED <<pkgManager, ipc>>
    /\ UNCHANGED <<mainIn, steps, shown, currentStep, totalSteps, missing,
                   selectedBoard, requiresJLink>>
    /\ UNCHANGED <<goos, path, tpc, wg, errChan, errClosed, result, notices,
                   invoked, failed, seenPresent, bootRan, bootErr,
                   cmdRan>>
    /\ UNCHANGED <<flashVars, choiceVars, cfgVars>>

\* clean branch: CleanDependencies, the summary, os.Exit
MainCleanDependencies ==
    /\ mpc = "cleanDeps"
    /\ \E outcome \in Outcomes(goos) :
         /\ calls' = IF StepFails(outcome)
                     THEN Append(calls, "CleanDependencies")
                     ELSE calls \o <<"CleanDependencies", "PrintCleanSummary">>
         /\ Returned("CleanDependencies", outcome)
         /\ Exit(CleanExit(outcome), "clean")
    /\ UNCHANGED <<mainIn, debugMode, steps, shown, currentStep, totalSteps, missing,
                   selectedBoard, requiresJLink>>
    /\ UNCHANGED <<installVars, flashVars, choiceVars, cfgVars>>

\* "Ready to install?"
MainReady ==
    /\ mpc = "ready"
    /\ prompts' = Append(prompts, "ready")
    /\ \/ Exit(1, "promptRead")
       \/ Exit(0, "declinedReady")
       \/ mpc' = "getInstaller" /\ UNCHANGED <<exitCode, exitAt>>
    /\ UNCHANGED <<mainIn, debugMode, calls, errs, steps, shown, currentStep,
                   totalSteps, missing, selectedBoard, requiresJLink>>
    /\ UNCHANGED <<cfgIn, cpc, cfgOrgID, cfgAPIToken, cfgBoard, preConfigured,
                   cfgErr, validateErr, credErr>>
    /\ UNCHANGED <<installVars, flashVars, choiceVars>>

\* platform.GetInstaller(); main.go prints it as step 1
MainGetInstaller ==
    /\ mpc = "getInstaller"
    /\ Call("GetInstaller")
    /\ IF mainVariant = "fixed"
       THEN PrintStep("Detecting platform", 1) /\ currentStep' = 1
       ELSE UNCHANGED <<steps, shown, currentStep>>
    /\ IF goos \in SupportedGOOS
       THEN /\ pkgManager' = IF goos = "linux" THEN detectPackageManager(path)
                             ELSE PackageManagerUnknown
            /\ ipc' = "ready"
            /\ mpc' = IF mainVariant = "probe" THEN "checkPrereq" ELSE "config"
            /\ UNCHANGED <<exitCode, exitAt, errs>>
       ELSE /\ errs' = errs \cup {"GetInstaller"}
            /\ Exit(1, "GetInstaller")
            /\ UNCHANGED <<pkgManager, ipc>>
    /\ UNCHANGED <<mainIn, debugMode, totalSteps, missing, selectedBoard,
                   requiresJLink>>
    /\ UNCHANGED <<goos, path, tpc, wg, errChan, errClosed, result, notices,
                   invoked, failed, seenPresent, bootRan, bootErr,
                   cmdRan>>
    /\ UNCHANGED <<flashVars, choiceVars, cfgVars>>

\* "Configuring credentials": the call of config.PromptForConfig
MainConfigCall ==
    /\ mpc = "config"
    /\ cpc = "idle"
    /\ PrintStep("Configuring credentials", StepNo(2))
    /\ currentStep' = StepNo(2)
    /\ Call("PromptForConfig")
    /\ cpc' = "start"
    /\ UNCHANGED <<mainIn, debugMode, mpc, exitCode, exitAt, errs, totalSteps,
                   missing, selectedBoard, requiresJLink>>
    /\ UNCHANGED <<cfgIn, cfgOrgID, cfgAPIToken, cfgBoard, preConfigured,
                   cfgErr, validateErr, credErr, prompts>>
    /\ UNCHANGED <<installVars, flashVars, choiceVars>>

\* `if err != nil` after config.PromptForConfig
MainConfigReturn ==
    /\ mpc = "config"
    /\ cpc = "returned"
    /\ Returned("PromptForConfig", ErrOutcome(cfgErr))
    /\ IF StepFails(ErrOutcome(cfgErr))
       THEN Exit(1, "PromptForConfig")
       ELSE /\ mpc' = "board"
            /\ UNCHANGED <<exitCode, exitAt>>
    /\ UNCHANGED <<mainIn, debugMode, calls, steps, shown, currentStep, totalSteps,
                   missing, selectedBoard, requiresJLink>>
    /\ UNCHANGED <<installVars, flashVars, choiceVars, cfgVars>>

\* "Selecting developer board": a pre-configured board, or the menu
MainSelectBoard ==
    /\ mpc = "board"
    /\ PrintStep("Selecting developer board", StepNo(3))
    /\ currentStep' = StepNo(3)
    /\ IF mainVariant = "board" /\ cfgBoard # <<>>
       THEN /\ Call("GetBoard")
            /\ IF GetBoardFinds(cfgBoard)
               THEN /\ selectedBoard' = cfgBoard
                    /\ requiresJLink' \in BOOLEAN
                    /\ mpc' = "checkPrereq"
                    /\ UNCHANGED <<exitCode, exitAt, errs>>
               ELSE /\ errs' = errs \cup {"GetBoard"}
                    /\ Exit(1, "GetBoard")
                    /\ UNCHANGED <<selectedBoard, requiresJLink>>
            /\ UNCHANGED <<cfgBoard, prompts>>
       ELSE /\ prompts' = Append(prompts, "board")
            /\ \/ /\ Exit(1, "promptRead")
                  /\ UNCHANGED <<selectedBoard, requiresJLink, cfgBoard>>
               \/ \E selectedIndex \in DOMAIN AvailableBoards :
                    /\ selectedBoard' = AvailableBoards[selectedIndex]
                    /\ cfgBoard' = AvailableBoards[selectedIndex]
                    /\ requiresJLink' \in
                         IF mainVariant = "board" THEN BOOLEAN ELSE {TRUE}
                    /\ mpc' = IF mainVariant = "board" THEN "checkPrereq"
                              ELSE "validate"
                    /\ UNCHANGED <<exitCode, exitAt>>
            /\ UNCHANGED <<calls, errs>>
    /\ UNCHANGED <<mainIn, debugMode, totalSteps, missing>>
    /\ UNCHANGED <<cfgIn, cpc, cfgOrgID, cfgAPIToken, preConfigured, cfgErr,
                   validateErr, credErr>>
    /\ UNCHANGED <<installVars, flashVars, choiceVars>>

\* cfg.Validate()
MainValidate ==
    /\ mpc = "validate"
    /\ Call("Validate")
    /\ validateErr' = Validate(cfgOrgID, cfgAPIToken, cfgBoard)
    /\ Returned("Validate", ErrOutcome(validateErr'))
    /\ IF StepFails(ErrOutcome(validateErr'))
       THEN Exit(1, "Validate")
       ELSE /\ mpc' = IF mainVariant = "fixed" THEN "checkPrereq" ELSE "confirm"
            /\ UNCHANGED <<exitCode, exitAt>>
    /\ UNCHANGED <<mainIn, debugMode, steps, shown, currentStep, totalSteps, missing,
                   selectedBoard, requiresJLink>>
    /\ UNCHANGED <<cfgIn, cpc, cfgOrgID, cfgAPIToken, cfgBoard, preConfigured,
                   cfgErr, credErr, prompts>>
    /\ UNCHANGED <<installVars, flashVars, choiceVars>>

\* "Checking prerequisites", and the count of the steps
MainCheckPrerequisites ==
    /\ mpc = "checkPrereq"
    /\ PrintStep("Checking prerequisites", StepNo(4))
    /\ currentStep' = StepNo(4)
    /\ Call("CheckPrerequisites")
    /\ Returned("CheckPrerequisites",
                IF PrerequisitesFail(goos) THEN "err" ELSE "ok")
    /\ IF StepFails(IF PrerequisitesFail(goos) THEN "err" ELSE "ok")
       THEN /\ Exit(1, "CheckPrerequisites")
            /\ UNCHANGED <<missing, totalSteps>>
       ELSE /\ missing' \in IF mainVariant = "board"
                            THEN CheckPrerequisitesRequired(goos)
                            ELSE {FullMissing(goos)}
            /\ totalSteps' =
                 IF mainVariant # "board" THEN totalSteps
                 ELSE 4 + (IF NeedsInstall(missing') THEN 1 ELSE 0)
                        + (IF RequiresJLink THEN 1 ELSE 0)
            /\ mpc' = IF NeedsInstall(missing') THEN "askInstall"
                      ELSE AfterInstall
            /\ UNCHANGED <<exitCode, exitAt>>
    /\ UNCHANGED <<mainIn, debugMode, selectedBoard, requiresJLink>>
    /\ UNCHANGED <<installVars, flashVars, choiceVars, cfgVars>>

\* a decline of the install that counts as a normal end
InstallDeclinedStatusZero == 0

\* os.Exit(1) after "Cannot proceed without dependencies"
InstallDeclinedStatus == 1

\* "Would you like to install missing dependencies?"
MainAskInstall ==
    /\ mpc = "askInstall"
    /\ prompts' = Append(prompts, "installDeps")
    /\ \/ /\ Exit(1, "promptRead")
          /\ UNCHANGED <<steps, shown, currentStep>>
       \/ /\ Exit(InstallDeclinedStatus, "declinedInstall")
          /\ UNCHANGED <<steps, shown, currentStep>>
       \/ /\ PrintStep("Installing dependencies", StepNo(5))
          /\ currentStep' = StepNo(5)
          /\ mpc' = IF "Homebrew" \in missing THEN "installPM"
                    ELSE "installDeps"
          /\ UNCHANGED <<exitCode, exitAt>>
    /\ UNCHANGED <<mainIn, debugMode, calls, errs, totalSteps, missing,
                   selectedBoard, requiresJLink>>
    /\ UNCHANGED <<cfgIn, cpc, cfgOrgID, cfgAPIToken, cfgBoard, preConfigured,
                   cfgErr, validateErr, credErr>>
    /\ UNCHANGED <<installVars, flashVars, choiceVars>>

\* the variables of the installer that a bootstrap of Homebrew leaves alone
notBootstrap == <<goos, pkgManager, ipc, tpc, wg, errChan, errClosed, result,
                  notices, invoked, failed, seenPresent, bootRan, bootErr>>

\* installer.InstallPackageManager() when Homebrew is missing: it returns at
\* once when brew is on the path, and runs sudo -v and the installation
\* script otherwise
MainInstallPackageManager ==
    /\ mpc = "installPM"
    /\ Call("InstallPackageManager")
    /\ IF commandExists("brew")
       THEN /\ Returned("InstallPackageManager", "ok")
            /\ mpc' = "installDeps"
            /\ UNCHANGED <<exitCode, exitAt, path, cmdRan>>
       ELSE \E outcome \in BrewOutcomes :
              LET err == DarwinInstallPackageManagerErr(outcome) IN
              /\ cmdRan' = cmdRan \o DarwinBootstrapCommands(outcome)
              /\ path' = PathAfterBootstrap(path, outcome)
              /\ Returned("InstallPackageManager", ErrOutcome(err))
              /\ IF StepFails(ErrOutcome(err))
                 THEN Exit(1, "InstallPackageManager")
                 ELSE /\ mpc' = "installDeps"
                      /\ UNCHANGED <<exitCode, exitAt>>
    /\ UNCHANGED <<mainIn, debugMode, steps, shown, currentStep, totalSteps, missing,
                   selectedBoard, requiresJLink>>
    /\ UNCHANGED <<notBootstrap, flashVars, choiceVars, cfgVars>>

\* installer.InstallDependencies(...): on macOS it first calls
\* InstallPackageManager when brew is not on the path (darwin.go:199-205) and
\* returns its error; the installs that follow succeed or fail
MainInstallDependencies ==
    /\ mpc = "installDeps"
    /\ Call("InstallDependencies")
    /\ IF goos = "darwin" /\ ~commandExists("brew")
       THEN \E boot \in BrewOutcomes, outcome \in Outcomes(goos) :
              LET err == DarwinInstallPackageManagerErr(boot)
                  ret == IF err # Nil THEN "err" ELSE outcome
              IN  /\ cmdRan' = cmdRan \o DarwinBootstrapCommands(boot)
                  /\ path' = PathAfterBootstrap(path, boot)
                  /\ Returned("InstallDependencies", ret)
                  /\ IF StepFails(ret)
                     THEN Exit(1, "InstallDependencies")
                     ELSE /\ mpc' = AfterInstall
                          /\ UNCHANGED <<exitCode, exitAt>>
       ELSE \E outcome \in Outcomes(goos) :
              /\ Returned("InstallDependencies", outcome)
              /\ IF StepFails(outcome)
                 THEN Exit(1, "InstallDependencies")
                 ELSE /\ mpc' = AfterInstall
                      /\ UNCHANGED <<exitCode, exitAt>>
              /\ UNCHANGED <<path, cmdRan>>
    /\ UNCHANGED <<mainIn, debugMode, steps, shown, currentStep, totalSteps, missing,
                   selectedBoard, requiresJLink>>
    /\ UNCHANGED <<notBootstrap, flashVars, choiceVars, cfgVars>>

\* "Checking for J-Link probe": one round of the loop up to the menu
MainCheckJLinkProbe ==
    /\ mpc = "probe"
    /\ IF Count(calls, "CheckJLinkProbe") = 0
       THEN /\ PrintStep("Checking for J-Link probe", currentStep + 1)
            /\ currentStep' = currentStep + 1
       ELSE UNCHANGED <<steps, shown, currentStep>>
    /\ Call("CheckJLinkProbe")
    /\ \E detected \in BOOLEAN :
         mpc' = IF detected THEN AfterProbe ELSE "probeMenu"
    /\ UNCHANGED <<mainIn, debugMode, exitCode, exitAt, errs, totalSteps,
                   missing, selectedBoard, requiresJLink>>
    /\ UNCHANGED <<installVars, flashVars, choiceVars, cfgVars>>

\* a Retry that leaves the loop for the flash confirmation
ProbeMenuNextFlashes(choice) == IF choice = 0 THEN "confirm" ELSE AfterProbe

\* switch choice: case 0 continues the loop, case 1 sets probeDetected
ProbeMenuNext(choice) == IF choice = 0 THEN "probe" ELSE AfterProbe

\* "What would you like to do?": retry, continue anyway, exit
MainProbeMenu ==
    /\ mpc = "probeMenu"
    /\ prompts' = Append(prompts, "probeMenu")
    /\ \/ Exit(1, "promptRead")
       \/ \E choice \in 0..2 :
            /\ choice = 0 => Count(prompts, "probeMenu") + 1 < MaxAsk
            /\ IF choice = 2
               THEN Exit(0, "probeMenuExit")
               ELSE /\ mpc' = ProbeMenuNext(choice)
                    /\ UNCHANGED <<exitCode, exitAt>>
    /\ UNCHANGED <<mainIn, debugMode, calls, errs, steps, shown, currentStep,
                   totalSteps, missing, selectedBoard, requiresJLink>>
    /\ UNCHANGED <<cfgIn, cpc, cfgOrgID, cfgAPIToken, cfgBoard, preConfigured,
                   cfgErr, validateErr, credErr>>
    /\ UNCHANGED <<installVars, flashVars, choiceVars>>

\* the J-Link path of the final step
Flashes == mainVariant # "board" \/ RequiresJLink

\* "Would you like to flash ... now?" / "... generate the hex file ... now?"
MainConfirm ==
    /\ mpc = "confirm"
    /\ prompts' = Append(prompts, IF Flashes THEN "flash" ELSE "generate")
    /\ \/ /\ Exit(1, "promptRead")
          /\ currentStep' = IF mainVariant = "board" THEN currentStep + 1
                            ELSE currentStep
          /\ UNCHANGED <<steps, shown>>
       \/ /\ Exit(0, IF Flashes THEN "declinedFlash" ELSE "declinedGenerate")
          /\ currentStep' = IF mainVariant = "board" THEN currentStep + 1
                            ELSE currentStep
          /\ UNCHANGED <<steps, shown>>
       \/ /\ PrintStep(IF Flashes THEN "Flashing board" ELSE "Generating hex file",
                       StepNo(6))
          /\ currentStep' = StepNo(6)
          /\ mpc' = "flash"
          /\ UNCHANGED <<exitCode, exitAt>>
    /\ UNCHANGED <<mainIn, debugMode, calls, errs, totalSteps, missing,
                   selectedBoard, requiresJLink>>
    /\ UNCHANGED <<cfgIn, cpc, cfgOrgID, cfgAPIToken, cfgBoard, preConfigured,
                   cfgErr, validateErr, credErr>>
    /\ UNCHANGED <<installVars, flashVars, choiceVars>>

\* installer.FlashBoard(...) or installer.GenerateHexFile(...)
MainFlash ==
    /\ mpc = "flash"
    /\ Call(IF Flashes THEN "FlashBoard" ELSE "GenerateHexFile")
    /\ \E outcome \in Outcomes(goos) :
         /\ Returned(IF Flashes THEN "FlashBoard" ELSE "GenerateHexFile", outcome)
         /\ IF StepFails(outcome)
            THEN Exit(1, IF Flashes THEN "FlashBoard" ELSE "GenerateHexFile")
            ELSE /\ mpc' = "verify"
                 /\ UNCHANGED <<exitCode, exitAt>>
    /\ UNCHANGED <<mainIn, debugMode, steps, shown, currentStep, totalSteps, missing,
                   selectedBoard, requiresJLink>>
    /\ UNCHANGED <<installVars, flashVars, choiceVars, cfgVars>>

\* a main that treats a failed verification like a failed step
VerifyExitFatal(outcome) == IF outcome = "err" THEN 1 ELSE 0

\* the exit status after Verify: its error only prints a warning, the banner
\* and os.Exit(0) follow in both cases
VerifyExit(outcome) == 0

\* installer.Verify(...), whose error is a warning; the banner; os.Exit(0)
MainVerify ==
    /\ mpc = "verify"
    /\ calls' = calls \o <<"Verify", "PrintCompletionBanner">>
    /\ \E outcome \in {"ok", "err"} :
         /\ Returned("Verify", outcome)
         /\ Exit(VerifyExit(outcome), "completed")
    /\ UNCHANGED <<mainIn, debugMode, steps, shown, currentStep, totalSteps, missing,
                   selectedBoard, requiresJLink>>
    /\ UNCHANGED <<installVars, flashVars, choiceVars, cfgVars>>

MainNext ==
    \/ MainParseFlags
    \/ MainCleanBegin
    \/ MainCleanDependencies
    \/ MainReady
    \/ MainGetInstaller
    \/ MainConfigCall
    \/ CfgCheckEnvironment
    \/ CfgUseEnvOrgID
    \/ CfgPromptOrgID
    \/ CfgUseEnvAPIToken
    \/ CfgPromptAPIToken
    \/ MainConfigReturn
    \/ MainSelectBoard
    \/ MainValidate
    \/ MainCheckPrerequisites
    \/ MainAskInstall
    \/ MainInstallPackageManager
    \/ MainInstallDependencies
    \/ MainCheckJLinkProbe
    \/ MainProbeMenu
    \/ MainConfirm
    \/ MainFlash
    \/ MainVerify

\* the (GOOS, PATH) pairs a run starts in
Hosts ==
    {<<"darwin", {}>>, <<"darwin", {"brew"}>>,
     <<"darwin", {"brew", "uv", "JLinkExe"}>>,
     <<"linux", {}>>, <<"linux", {"apt-get"}>>,
     <<"linux", {"apt-get", "uv", "JLinkExe"}>>,
     <<"linux", {"uv"}>>, <<"linux", {"dnf", "JLinkExe"}>>,
     <<"linux", {"yum", "uv"}>>,
     <<"windows", {}>>, <<"plan9", {}>>}

\* main.go and the main with the probe step and the fixed count call a
\* PromptForConfig of two results, the board-aware main one of three
Builds ==
    {<<"fixed", "prompt">>, <<"fixed", "env">>,
     <<"probe", "prompt">>, <<"probe", "env">>,
     <<"board", "b64">>, <<"board", "b64v">>}

\* the state of main before it is started
MainParked ==
    /\ mainVariant = "fixed"
    /\ cleanFlag = FALSE
    /\ debugFlag = FALSE
    /\ debugMode = FALSE
    /\ mpc = "idle"
    /\ exitCode = NoExit
    /\ exitAt = "none"
    /\ calls = <<>>
    /\ errs = {}
    /\ steps = <<>>
    /\ shown = <<>>
    /\ currentStep = 0
    /\ totalSteps = 6
    /\ missing = {}
    /\ selectedBoard = <<>>
    /\ requiresJLink = TRUE

\* the process at the entry of main
MainInit ==
    /\ \E build \in Builds : mainVariant = build[1] /\ cfgVariant = build[2]
    /\ cleanFlag \in BOOLEAN
    /\ debugFlag \in BOOLEAN
    /\ debugMode = FALSE
    /\ mpc = "start"
    /\ exitCode = NoExit
    /\ exitAt = "none"
    /\ calls = <<>>
    /\ errs = {}
    /\ steps = <<>>
    /\ shown = <<>>
    /\ currentStep = 0
    /\ totalSteps = IF mainVariant = "board" THEN 0 ELSE 6
    /\ missing = {}
    /\ selectedBoard = <<>>
    /\ requiresJLink = TRUE
    /\ envCreds \in IF HasB64(cfgVariant) THEN CredentialInputs ELSE {<<>>}
    /\ envOrgID \in IF HasEnv(cfgVariant) THEN {<<>>, StrOrg1} ELSE {<<>>}
    /\ envAPIToken \in IF HasEnv(cfgVariant)
                       THEN {<<>>, StrToken, StrShortToken} ELSE {<<>>}
    /\ cpc = "idle"
    /\ cfgOrgID = <<>>
    /\ cfgAPIToken = <<>>
    /\ cfgBoard = <<>>
    /\ preConfigured = FALSE
    /\ cfgErr = "none"
    /\ validateErr = "none"
    /\ credErr = "none"
    /\ prompts = <<>>
    /\ \E host \in Hosts : goos = host[1] /\ path = host[2]
    /\ pkgManager = PackageManagerUnknown
    /\ ipc = "start"
    /\ tpc = [t \in Tasks |-> "none"]
    /\ wg = 0
    /\ errChan = <<>>
    /\ errClosed = FALSE
    /\ result = "none"
    /\ notices = {}
    /\ invoked = {}
    /\ failed = {}
    /\ seenPresent = {}
    /\ bootRan = <<>>
    /\ bootErr = FALSE
    /\ cmdRan = <<>>

(***************************************************************************)
(* Part 5: ui.PromptChoice                                                 *)
(***************************************************************************)

\* the lines typed at the "Select (1-n)" prompt, without the newline
ChoiceInputs ==
    {<<>>,                             \* ""
     <<49>>,                           \* "1"
     <<50>>,                           \* "2"
     <<51>>,                           \* "3"
     <<52>>,                           \* "4"
     <<48>>,                           \* "0"
     <<45, 49>>,                       \* "-1"
     <<43, 50>>,                       \* "+2"
     <<48, 50>>,                       \* "02"
     <<50, 97, 98, 99>>,               \* "2abc"
     <<97, 98, 99>>,                   \* "abc"
     <<49, 46, 53>>,                   \* "1.5"
     <<50, 32, 51>>,                   \* "2 3"
     <<120, 50>>,                      \* "x2"
     <<49, 95>>,                       \* "1_"
     <<95, 49>>,                       \* "_1"
     <<57, 57, 57, 57, 57, 57, 57, 57, 57, 57, 57, 57, 57, 57, 57, 57, 57, 57, 57, 57>>, \* "99999999999999999999"
     <<32, 51, 32>>,                   \* " 3 "
     <<43>>                            \* "+"
    }

\* the menus tried have up to this many options
MaxOptions == 3

\* the characters scanNumber accepts for the verb d: 0-9 and the underscore
IsScanDigit(c) == c \in 48..57 \/ c = 95

\* the sign, if any, and the longest run of scan digits at the start of s
RECURSIVE DigitRun(_)
DigitRun(s) ==
    IF s # <<>> /\ IsScanDigit(Head(s))
    THEN <<Head(s)>> \o DigitRun(Tail(s))
    ELSE <<>>

\* the decimal value of a sequence of the characters 0-9
RECURSIVE DecimalValue(_)
DecimalValue(d) ==
    IF d = <<>> THEN 0
    ELSE 10 * DecimalValue(SubSeq(d, 1, Len(d) - 1)) + (d[Len(d)] - 48)

\* the digits that ParseInt can take without leaving the range of int64 are
\* at most 19; the inputs tried have at most 2 digits or 20
MaxInt64Digits == 19

\* the response read as a whole: an integer only when nothing follows the
\* number
SscanfWholeLine(s) ==
    LET t == TrimLeft(s)
        signed == t # <<>> /\ Head(t) \in {43, 45}
        body == IF signed THEN Tail(t) ELSE t
        run == DigitRun(body)
    IN  IF run = <<>> \/ Len(run) # Len(body) THEN [ok |-> FALSE, n |-> 0]
        ELSE IF (\E i \in DOMAIN run : run[i] = 95) \/ Len(run) > MaxInt64Digits
        THEN [ok |-> FALSE, n |-> 0]
        ELSE [ok |-> TRUE,
              n |-> IF signed /\ Head(t) = 45 THEN 0 - DecimalValue(run)
                    ELSE DecimalValue(run)]

\* fmt.Sscanf(response, "%d", &choice): leading space is skipped, a sign is
\* accepted, the longest run of 0-9 and _ is the token, strconv.ParseInt(tok,
\* 10, 64) rejects an underscore and a value out of range; what follows the
\* token is not looked at
Sscanf(s) ==
    LET t == TrimLeft(s)
        signed == t # <<>> /\ Head(t) \in {43, 45}
        body == IF signed THEN Tail(t) ELSE t
        run == DigitRun(body)
    IN  IF run = <<>> THEN [ok |-> FALSE, n |-> 0]
        ELSE IF (\E i \in DOMAIN run : run[i] = 95) \/ Len(run) > MaxInt64Digits
        THEN [ok |-> FALSE, n |-> 0]
        ELSE [ok |-> TRUE,
              n |-> IF signed /\ Head(t) = 45 THEN 0 - DecimalValue(run)
                    ELSE DecimalValue(run)]

\* err == nil && choice >= 1 && choice <= len(options)
ChoiceAccepted(response, n) ==
    LET r == Sscanf(response) IN r.ok /\ r.n >= 1 /\ r.n <= n

ChoiceParked ==
    /\ chOptions = 0
    /\ chPc = "idle"
    /\ chLines = <<>>
    /\ chRet = NoExit

ChoiceInit ==
    /\ chOptions \in 1..MaxOptions
    /\ chPc = "prompt"
    /\ chLines = <<>>
    /\ chRet = NoExit

\* one round of the loop of PromptChoice: ReadString, TrimSpace, Sscanf, and
\* the return or the warning
ChoiceRead ==
    /\ chPc = "prompt"
    /\ Len(chLines) < MaxAsk
    /\ \E line \in ChoiceInputs :
         LET response == TrimSpace(line) IN
         /\ chLines' = Append(chLines, line)
         /\ IF ChoiceAccepted(response, chOptions)
            THEN /\ chRet' = Sscanf(response).n - 1
                 /\ chPc' = "returned"
            ELSE UNCHANGED <<chRet, chPc>>
    /\ UNCHANGED chOptions
    /\ UNCHANGED <<installVars, flashVars, cfgVars, mainVars>>

\* ReadString fails: os.Exit(1)
ChoiceReadFails ==
    /\ chPc = "prompt"
    /\ chPc' = "exited"
    /\ UNCHANGED <<chOptions, chLines, chRet>>
    /\ UNCHANGED <<installVars, flashVars, cfgVars, mainVars>>

ChoiceNext == ChoiceRead \/ ChoiceReadFails

InitValidate ==
    InstallParked /\ FlashInit /\ ValidateInit /\ MainParked /\ ChoiceParked

SpecValidate == InitValidate /\ [][ValidateNext]_vars

InitInstall ==
    InstallInit /\ FlashInit /\ CfgParked /\ MainParked /\ ChoiceParked

SpecInstall == InitInstall /\ [][InstallNext]_vars

\* the Go scheduler runs every goroutine that can run: an install goroutine
\* whose install action returns takes its next step, and so does the caller
\* once wg.Wait() can return
SpecInstallFair ==
    /\ SpecInstall
    /\ \A t \in Tasks : WF_vars(TaskCheck(t) \/ TaskInstallReturns(t))
    /\ WF_vars(InstallWaitClose)
    /\ WF_vars(InstallRange)

InitFlash ==
    InstallParked /\ FlashInit /\ CfgParked /\ MainParked /\ ChoiceParked

SpecFlash == InitFlash /\ [][FlashNext]_vars

InitMain == MainInit /\ FlashInit /\ ChoiceParked

SpecMain == InitMain /\ [][MainNext]_vars

InitChoice ==
    InstallParked /\ FlashInit /\ CfgParked /\ MainParked /\ ChoiceInit

SpecChoice == InitChoice /\ [][ChoiceNext]_vars

(***************************************************************************)
(* Claims about Part 1                                                     *)
(***************************************************************************)

\* C1 (as stated): when InstallDependencies has returned, its result is a
\* non-nil error if and only if at least one launched install action returned
\* an error.
C1_ErrorIffTaskFailed ==
    ipc = "done" => ((result # Nil) <=> (failed # {}))

\* C1 (amended): when InstallDependencies has returned, its result is a
\* non-nil error if and only if the bootstrap returned an error or at least
\* one launched install action returned an error; in particular it is non-nil
\* when both install actions were needed and both failed.
C1_ErrorIffBootstrapOrTaskFailed ==
    ipc = "done" =>
        /\ (result # Nil) <=> (bootErr \/ failed # {})
        /\ (failed = Tasks) => result # Nil

\* both install actions ran, both failed, and InstallDependencies returned
C1_Witness ==
    /\ ipc = "done"
    /\ invoked = Tasks
    /\ failed = Tasks
    /\ result # Nil

\* C2: a task that found its executable on the path at its probe never
\* invokes the install action, contributes no error, and emits the
\* "already installed" notice once it is past the probe.
C2_PresentNeverInstalls ==
    \A t \in Tasks :
        t \in seenPresent =>
            /\ t \notin invoked
            /\ t \notin failed
            /\ TaskError(t) \notin {errChan[i] : i \in DOMAIN errChan}
            /\ result # TaskError(t)
            /\ t \in notices
            /\ tpc[t] = "done"

\* one dependency was present and skipped while the other was installed
C2_Witness ==
    /\ ipc = "done"
    /\ "uv" \in seenPresent
    /\ "uv" \in notices
    /\ "segger-jlink" \in invoked

\* C3: the package manager NewLinuxInstaller records is the first of apt-get,
\* dnf, yum that is on the search path, and PackageManagerUnknown exactly when
\* none of the three is; nothing else on the path has a say.
C3_FirstInPriorityOrder ==
    (goos = "linux" /\ ipc # "start") =>
        /\ (pkgManager = PackageManagerAPT) <=> ("apt-get" \in path)
        /\ (pkgManager = PackageManagerDNF) <=>
               ("dnf" \in path /\ "apt-get" \notin path)
        /\ (pkgManager = PackageManagerYUM) <=>
               ("yum" \in path /\ {"apt-get", "dnf"} \cap path = {})
        /\ (pkgManager = PackageManagerUnknown) <=>
               ({"apt-get", "dnf", "yum"} \cap path = {})

\* dnf and yum are both present, apt-get is not, and dnf was chosen
C3_Witness ==
    /\ goos = "linux"
    /\ ipc = "ready"
    /\ {"dnf", "yum"} \subseteq path
    /\ "apt-get" \notin path
    /\ pkgManager = PackageManagerDNF

(***************************************************************************)
(* Claims about Part 2                                                     *)
(***************************************************************************)

\* the positions of the double-quote characters of a line
QuotePositions(line) == {i \in DOMAIN line : line[i] = Q}

Least(S) == CHOOSE x \in S : \A y \in S : x <= y

\* the marker occurs in the line
HasMarker(line) ==
    \E pre \in 0..Len(line) :
        /\ pre + Len(Marker) <= Len(line)
        /\ \A j \in DOMAIN Marker : line[pre + j] = Marker[j]

\* the text between the first and the second double-quote character
Between(line) ==
    LET first == Least(QuotePositions(line))
        second == Least(QuotePositions(line) \ {first})
    IN  [k \in 1..(second - first - 1) |-> line[first + k]]

\* the line carries the marker, two quotes, and something between them
Publishes(line) ==
    /\ HasMarker(line)
    /\ Cardinality(QuotePositions(line)) >= 2
    /\ Between(line) # <<>>

\* C4: each time the relay handles a line, the channel receives exactly the
\* text between the first and second double quote of a marker line (when its
\* slot is free) and nothing otherwise; and a FlashBoard that succeeds when
\* nothing was published returns "your-device".
C4_ExtractsQuotedValue ==
    /\ [][echoed' # echoed =>
            LET line == echoed'[Len(echoed')] IN
            IF Publishes(line)
            THEN /\ deviceNameChan = <<>> =>
                        /\ deviceNameChan' = <<Between(line)>>
                        /\ published' = Append(published, Between(line))
                 /\ deviceNameChan # <<>> =>
                        UNCHANGED <<deviceNameChan, published>>
            ELSE UNCHANGED <<deviceNameChan, published>>]_vars
    /\ []((fpc = "done" /\ flashErr = Nil /\ published = <<>>) =>
              flashName = DefaultDeviceName)
    /\ []((fpc = "done" /\ flashErr = Nil
              /\ \A i \in DOMAIN written : ~Publishes(written[i])) =>
              flashName = DefaultDeviceName)

\* FlashBoard returned the name quoted on a line whose first quote precedes
\* the marker
C4_Witness ==
    /\ fpc = "done"
    /\ flashErr = Nil
    /\ written = << <<Q, "b", Q, " ">> \o Marker \o <<Q, "a", Q>> >>
    /\ published = << <<"b">> >>
    /\ flashName = <<"b">>

\* C5: when FlashBoard returns without error and some stdout line carried a
\* device name, the relay has handled every stdout line and FlashBoard
\* returns the captured name, never the default.
C5_RelayJoinedBeforeResult ==
    (/\ fpc = "done"
     /\ flashErr = Nil
     /\ \E i \in DOMAIN written : Publishes(written[i])) =>
        LET first == Least({i \in DOMAIN written : Publishes(written[i])}) IN
        /\ echoed = written
        /\ flashName = Between(written[first])
        /\ flashName # DefaultDeviceName

(***************************************************************************)
(* Claims about Part 3                                                     *)
(***************************************************************************)

HexCodes == (48..57) \cup (97..102) \cup (65..70)

\* C6: Config.Validate returns an error exactly when the org id, the token
\* or the board is empty; validateCredentials returns an error exactly when
\* the org id lacks the "org_" prefix or has fewer than 5 characters, or the
\* token has fewer than 32 characters or a character that is not a hex digit.
C6_ValidationRejects ==
    /\ validateErr # "none" =>
          ((validateErr # Nil) <=>
              (cfgOrgID = <<>> \/ cfgAPIToken = <<>> \/ cfgBoard = <<>>))
    /\ credErr # "none" =>
          ((credErr # Nil) <=>
              \/ Len(cfgOrgID) < 4
              \/ \E i \in 1..4 : i <= Len(cfgOrgID) /\ cfgOrgID[i] # StrOrgPrefix[i]
              \/ Len(cfgOrgID) < 5
              \/ Len(cfgAPIToken) < 32
              \/ \E i \in DOMAIN cfgAPIToken : cfgAPIToken[i] \notin HexCodes)

\* a 32-character token starting with upper-case F passed both checks
C6_Witness ==
    /\ validateErr = Nil
    /\ credErr = Nil
    /\ Len(cfgAPIToken) = 32
    /\ cfgAPIToken[1] = 70
    /\ cfgOrgID = <<111, 114, 103, 95, 49>>

(***************************************************************************)
(* Claims about Parts 3 and 4: PromptForConfig and main                    *)
(***************************************************************************)

Elems(s) == {s[i] : i \in DOMAIN s}

\* C7 (as stated): with HUBBLE_CREDENTIALS holding the base64 of
\* org:token:board, PromptForConfig returns without error a configuration
\* with that org id, that token and that board, and the run is never asked
\* for the org id, the token or the board.
C7_CredentialsCarryBoard ==
    (mainVariant = "board" /\ envCreds = EncOrgTokenBoard) =>
        /\ cpc = "returned" =>
              /\ cfgErr = Nil
              /\ cfgOrgID = StrOrg1
              /\ cfgAPIToken = StrToken
              /\ cfgBoard = StrNrf52840dk
        /\ Elems(prompts) \cap {"orgID", "apiToken", "board"} = {}
        /\ exitAt # "PromptForConfig"

\* C8: in the board-aware main, once CheckPrerequisites has returned an empty
\* list for a board that does not require J-Link, the install step and the
\* probe step are never executed, and the step printed after "Checking
\* prerequisites" is the generate step.
C8_SkipsInstallAndProbe ==
    (/\ mainVariant = "board"
     /\ "CheckPrerequisites" \in Elems(calls)
     /\ "CheckPrerequisites" \notin errs
     /\ missing = {}
     /\ ~RequiresJLink) =>
        /\ Elems(calls) \cap {"InstallPackageManager", "InstallDependencies",
                              "CheckJLinkProbe", "FlashBoard"} = {}
        /\ Elems(steps) \cap {"Installing dependencies",
                              "Checking for J-Link probe"} = {}
        /\ mpc \in {"validate", "confirm", "flash", "verify", "exited"}
        /\ \A i \in DOMAIN steps :
              (steps[i] = "Checking prerequisites" /\ i < Len(steps))
                  => steps[i + 1] = "Generating hex file"
        /\ totalSteps = 4

\* such a run generated the hex file and completed
C8_Witness ==
    /\ mainVariant = "board"
    /\ missing = {}
    /\ ~RequiresJLink
    /\ steps = <<"Configuring credentials", "Selecting developer board",
                 "Checking prerequisites", "Generating hex file">>
    /\ "GenerateHexFile" \in Elems(calls)
    /\ exitAt = "completed"

InstallationCalls ==
    {"PromptForConfig", "CheckPrerequisites", "InstallPackageManager",
     "InstallDependencies", "CheckJLinkProbe", "FlashBoard", "GenerateHexFile",
     "Validate", "Verify"}

\* C9 (as stated): a -clean run sets debug mode, calls CleanDependencies,
\* prints the summary and exits 0, and executes no installation step.
C9_CleanExitsZero ==
    cleanFlag =>
        /\ mpc = "exited" =>
              /\ debugMode
              /\ "CleanDependencies" \in Elems(calls)
              /\ "PrintCleanSummary" \in Elems(calls)
              /\ exitCode = 0
        /\ Elems(calls) \cap InstallationCalls = {}
        /\ prompts = <<>>
        /\ steps = <<>>

\* C9 (amended): a -clean run sets debug mode and calls GetInstaller and
\* then CleanDependencies; it prints the summary and exits 0 when both
\* succeed, and exits 1 without the summary when either returns an error;
\* no installation step is executed on any path.
C9_CleanExitsByOutcome ==
    cleanFlag =>
        /\ mpc = "exited" =>
              /\ debugMode
              /\ exitCode \in {0, 1}
              /\ exitCode = 0 <=> errs = {}
              /\ exitCode = 0 <=>
                    calls = <<"GetInstaller", "CleanDependencies",
                              "PrintCleanSummary">>
              /\ exitCode = 1 =>
                    /\ errs \in {{"GetInstaller"}, {"CleanDependencies"}}
                    /\ calls[Len(calls)] \in errs
        /\ Elems(calls) \cap InstallationCalls = {}
        /\ prompts = <<>>
        /\ steps = <<>>

\* a -clean run that cleaned, printed the summary and exited 0
C9_Witness ==
    /\ cleanFlag
    /\ debugMode
    /\ ~debugFlag
    /\ calls = <<"GetInstaller", "CleanDependencies", "PrintCleanSummary">>
    /\ exitCode = 0

\* the steps whose error ends the run
FatalSteps ==
    {"GetInstaller", "PromptForConfig", "Validate", "CheckPrerequisites",
     "InstallPackageManager", "InstallDependencies", "FlashBoard",
     "GenerateHexFile", "CleanDependencies"}

\* once a fatal step has returned an error the run has exited with status 1
\* and that step is the last call made
FailingStepEndsRun ==
    errs \cap FatalSteps # {} =>
        /\ mpc = "exited"
        /\ exitCode = 1
        /\ calls[Len(calls)] \in errs
        /\ Cardinality(errs) = 1

\* C10 (as stated): a step that returns an error ends the run with status 1
\* and nothing runs after it; status 0 is given only when the run completed,
\* the user declined flashing (or generating), or left at the probe menu.
C10_ExitStatus ==
    /\ FailingStepEndsRun
    /\ exitCode = 0 =>
          exitAt \in {"completed", "clean", "declinedFlash", "declinedGenerate",
                      "probeMenuExit"}

\* C10 (amended): as stated, with one more way to status 0: the user
\* answered no to "Ready to install?" in the board-aware main.
C10_ExitStatusWithCancel ==
    /\ FailingStepEndsRun
    /\ exitCode = 0 =>
          exitAt \in {"completed", "clean", "declinedFlash", "declinedGenerate",
                      "probeMenuExit", "declinedReady"}
    /\ exitAt = "declinedReady" => (mainVariant = "board" /\ calls = <<>>)

\* the dependency install failed after the package manager was installed
C10_Witness ==
    /\ errs = {"InstallDependencies"}
    /\ "InstallPackageManager" \in Elems(calls)
    /\ exitCode = 1
    /\ exitAt = "InstallDependencies"

\* C11: Linux CheckPrerequisites returns an error and no missing list when the
\* package manager is PackageManagerUnknown, whatever is on the path;
\* otherwise it returns no error and a list that holds "uv" exactly when uv is
\* absent and "segger-jlink" exactly when JLinkExe is absent; and the call
\* leaves the installer and the path as they were.
C11_LinuxCheckPrerequisites ==
    /\ []((/\ mainVariant = "fixed"
           /\ goos = "linux"
           /\ "CheckPrerequisites" \in Elems(calls)) =>
              IF pkgManager = PackageManagerUnknown
              THEN "CheckPrerequisites" \in errs /\ missing = {}
              ELSE /\ "CheckPrerequisites" \notin errs
                   /\ missing \subseteq {"uv", "segger-jlink"}
                   /\ "uv" \in missing <=> "uv" \notin path
                   /\ "segger-jlink" \in missing <=> "JLinkExe" \notin path)
    /\ [][(goos = "linux" /\ mpc = "checkPrereq") => UNCHANGED installVars]_vars

\* uv was there and JLinkExe was not: only segger-jlink was reported
C11_Witness ==
    /\ mainVariant = "fixed"
    /\ goos = "linux"
    /\ "CheckPrerequisites" \in Elems(calls)
    /\ pkgManager = PackageManagerYUM
    /\ "uv" \in path
    /\ missing = {"segger-jlink"}

\* the calls that start a package-manager, download or flash subprocess
ExternalActions ==
    {"InstallPackageManager", "InstallDependencies", "FlashBoard",
     "GenerateHexFile"}

\* C12 (as stated): in every main flow no install or flash is started before
\* Config.Validate has passed, and none is started with a token or org id
\* that validateCredentials rejects.
C12_ValidatedBeforeExternalAction ==
    Elems(calls) \cap ExternalActions # {} =>
        /\ "Validate" \in Elems(calls)
        /\ validateErr = Nil
        /\ validateCredentials(cfgOrgID, cfgAPIToken) = Nil

\* the prompts of PromptInput and PromptPassword asked so far
CredentialPrompts == Elems(prompts) \cap {"orgID", "apiToken"}

\* PromptForConfig has run to its return with HUBBLE_CREDENTIALS unset, in a
\* variant that reads HUBBLE_ORG_ID and HUBBLE_API_TOKEN
EnvOnlyReturned == HasEnv(cfgVariant) /\ envCreds = <<>> /\ cpc = "returned"

\* only the variable that is unset is prompted for
PromptsOnlyTheUnset ==
    /\ (HasEnv(cfgVariant) /\ envCreds = <<>> /\ envOrgID # <<>>) =>
           "orgID" \notin CredentialPrompts
    /\ (HasEnv(cfgVariant) /\ envCreds = <<>> /\ envAPIToken # <<>>) =>
           "apiToken" \notin CredentialPrompts
    /\ (EnvOnlyReturned /\ envOrgID = <<>>) => "orgID" \in CredentialPrompts
    /\ (EnvOnlyReturned /\ envAPIToken = <<>>) =>
           "apiToken" \in CredentialPrompts

TaskRunning(t) == tpc[t] \in {"check", "installing"}

\* C14: InstallDependencies closes and reads the error channel only after both
\* install goroutines have finished and never returns while one is running;
\* while a goroutine has not ended, the call takes no step of its own, so a
\* task that never ends blocks it forever.
C14_WaitsForBothTasks ==
    /\ []((\E t \in Tasks : TaskRunning(t)) =>
             /\ ipc = "wait"
             /\ result = "none"
             /\ ~errClosed)
    /\ [][(\E t \in Tasks : TaskRunning(t)) =>
             UNCHANGED <<ipc, result, errClosed>>]_vars
    /\ [][(ipc = "range" /\ ipc' = "done") =>
             \A t \in Tasks : tpc[t] = "done"]_vars

C14_Witness ==
    /\ ipc = "wait"
    /\ tpc["uv"] = "done"
    /\ errChan = <<TaskError("uv")>>
    /\ tpc["segger-jlink"] = "installing"
    /\ result = "none"

\* C17: when both install goroutines fail, InstallDependencies returns exactly
\* one of the two errors, the one sent first on the channel, and the other
\* stays unread in the closed channel; either of the two can be the first.
C17_FirstErrorReturned ==
    /\ []((ipc = "done" /\ failed = Tasks) =>
             /\ result \in {TaskError(t) : t \in Tasks}
             /\ Len(errChan) = 1
             /\ errChan[1] \in {TaskError(t) : t \in Tasks} \ {result})
    /\ [][(ipc = "range" /\ ipc' = "done" /\ failed = Tasks) =>
             /\ Len(errChan) = 2
             /\ result' = errChan[1]
             /\ errChan' = <<errChan[2]>>]_vars
    /\ [][(failed = {} /\ failed' # {} /\ failed' # Tasks) =>
             \E t \in Tasks : failed' = {t} /\ errChan' = <<TaskError(t)>>]_vars

C17_Witness ==
    /\ ipc = "done"
    /\ failed = Tasks
    /\ result = TaskError("segger-jlink")
    /\ errChan = <<TaskError("uv")>>

\* C15 (as stated): every step indicator printed shows a current step between
\* 1 and the total, and the total is the same in every indicator of one run.
C15_StepIndicatorsInRange ==
    \A i \in DOMAIN shown :
        /\ shown[i][1] >= 1
        /\ shown[i][1] <= shown[i][2]
        /\ shown[i][2] = shown[1][2]

\* main is inside the `for !probeDetected` loop
InProbeLoop == mpc \in {"probe", "probeMenu"}

\* the statement that follows the probe loop
ProbeLoopExit == IF mainVariant = "probe" THEN "config" ELSE "validate"

\* on Retry CheckJLinkProbe is the next thing that happens, and the flash is
\* never started while the loop runs
RetryProbesAgainAndNoFlashInLoop ==
    /\ [][mpc = "probe" =>
             /\ calls' = Append(calls, "CheckJLinkProbe")
             /\ UNCHANGED prompts]_vars
    /\ [][(mpc = "probeMenu" /\ InProbeLoop') => mpc' = "probe"]_vars
    /\ [](InProbeLoop =>
             /\ Elems(calls) \cap {"FlashBoard", "GenerateHexFile"} = {}
             /\ fpc = "start")

\* C16 (as stated): the probe loop is left only when a probe is detected, the
\* user selects "Continue anyway", or selects "Exit", which ends the process
\* with status 0 and no flash; on Retry CheckJLinkProbe is invoked again
\* before anything else, and the flash is never started inside the loop.
C16_ProbeLoopExits ==
    /\ [][(InProbeLoop /\ ~InProbeLoop') =>
             \/ mpc' = ProbeLoopExit
             \/ /\ mpc = "probeMenu"
                /\ mpc' = "exited"
                /\ exitCode' = 0
                /\ exitAt' = "probeMenuExit"]_vars
    /\ RetryProbesAgainAndNoFlashInLoop

\* C16 (amended): as above, and the loop is also left, with status 1 and no
\* flash, when the menu's input cannot be read.
C16_ProbeLoopExitsOrReadFails ==
    /\ [][(InProbeLoop /\ ~InProbeLoop') =>
             \/ mpc' = ProbeLoopExit
             \/ /\ mpc = "probeMenu"
                /\ mpc' = "exited"
                /\ \/ exitCode' = 0 /\ exitAt' = "probeMenuExit"
                   \/ exitCode' = 1 /\ exitAt' = "promptRead"]_vars
    /\ RetryProbesAgainAndNoFlashInLoop

C16_Witness ==
    /\ mpc = "probeMenu"
    /\ Count(calls, "CheckJLinkProbe") = 2
    /\ Count(prompts, "probeMenu") = 1
    /\ "FlashBoard" \notin Elems(calls)

\* an install goroutine has been started
TasksLaunched == \E t \in Tasks : tpc[t] # "none"

\* C18: the bootstrap of InstallDependencies (macOS: InstallPackageManager when
\* brew is absent; Linux: ensureSudoAccess, then InstallPackageManager) has
\* run to its end without error when the install goroutines are started; when
\* it returns an error, that error is the result and no goroutine is started.
C18_BootstrapBeforeTasks ==
    /\ [](bootErr =>
             /\ ~TasksLaunched
             /\ invoked = {}
             /\ notices = {}
             /\ ipc = "done"
             /\ result \notin {"none", Nil})
    /\ []((goos = "linux" /\ pkgManager = PackageManagerUnknown) =>
             ~TasksLaunched)
    /\ [][(~TasksLaunched /\ TasksLaunched') =>
             /\ ~bootErr'
             /\ \A t \in Tasks : tpc'[t] = "check"
             /\ goos = "linux" =>
                   bootRan' = <<"ensureSudoAccess", "InstallPackageManager">>
             /\ goos = "darwin" =>
                   bootRan' = IF commandExists("brew") THEN <<>>
                              ELSE <<"InstallPackageManager">>]_vars

C18_Witness ==
    /\ goos = "darwin"
    /\ bootRan = <<"InstallPackageManager">>
    /\ ~bootErr
    /\ \A t \in Tasks : tpc[t] = "check"

\* the names found in the lines the relay has echoed, in order
EchoedNames ==
    LET matching == SelectSeq(echoed, LAMBDA l : ExtractDeviceName(l) # <<>>)
    IN  [i \in DOMAIN matching |-> ExtractDeviceName(matching[i])]

\* C19 (as stated): the relay publishes at most one device name per flash, the
\* one of the first matching line; later matches are dropped while every line
\* is still echoed.
C19_PublishesAtMostOnce ==
    /\ Len(published) <= 1
    /\ published = IF EchoedNames = <<>> THEN <<>> ELSE <<EchoedNames[1]>>
    /\ Len(echoed) + Len(scanBuf) + Len(pipe) <= Len(written)

\* the HUBBLE_CREDENTIALS values that are unusable: not base64, no colon, or
\* an org id or token that is empty once trimmed
UnusableCredentials ==
    {EncTruncated, EncBadChar, EncPadInside, EncNoColon, EncEmptyOrg,
     EncEmptyToken}

\* what the user can have typed, trimmed
TypedOrgIDs == {TrimSpace(i) : i \in OrgInputs} \ {<<>>}
TypedTokens == {TrimSpace(i) : i \in TokenInputs} \ {<<>>}

\* C20: an unusable HUBBLE_CREDENTIALS is ignored without an error of its own:
\* PromptForConfig goes on to HUBBLE_ORG_ID / HUBBLE_API_TOKEN and the prompts
\* as if the variable were unset, and the configuration it returns takes its
\* org id and token from those and not from the unusable value.
C20_UnusableCredentialsIgnored ==
    (HasB64(cfgVariant) /\ envCreds \in UnusableCredentials
       /\ cpc = "returned") =>
        /\ envOrgID = <<>> => "orgID" \in Elems(prompts)
        /\ envAPIToken = <<>> => "apiToken" \in Elems(prompts)
        /\ preConfigured => (envOrgID # <<>> /\ envAPIToken # <<>>)
        /\ IF cfgErr = Nil
           THEN /\ cfgOrgID \in (IF envOrgID # <<>> THEN {envOrgID}
                                 ELSE TypedOrgIDs)
                /\ cfgAPIToken \in (IF envAPIToken # <<>> THEN {envAPIToken}
                                    ELSE TypedTokens)
                /\ cfgOrgID # StrOrg9
           ELSE /\ cfgVariant = "b64v"
                /\ \E org \in (IF envOrgID # <<>> THEN {envOrgID}
                                ELSE TypedOrgIDs),
                      tok \in (IF envAPIToken # <<>> THEN {envAPIToken}
                                ELSE TypedTokens) :
                      cfgErr = validateCredentials(org, tok)

C20_Witness ==
    /\ envCreds = EncEmptyToken
    /\ envOrgID = <<>>
    /\ envAPIToken = StrToken
    /\ cpc = "returned"
    /\ cfgErr = Nil
    /\ cfgOrgID = StrOrg1
    /\ cfgAPIToken = StrToken
    /\ ~preConfigured

\* InstallDependencies on Linux has called InstallPackageManager
LinuxPackageManagerRan ==
    goos = "linux" /\ "InstallPackageManager" \in Elems(bootRan)

\* C21: the Linux InstallPackageManager returns an error exactly when sudo
\* access fails or the package manager is not apt, dnf or yum; with sudo
\* obtained and a known manager it runs the update command and returns nil
\* whether that command succeeds or fails.
C21_UpdateStatusIgnored ==
    LinuxPackageManagerRan =>
        LET sudoOk == cmdRan[2][2]
            known == pkgManager \in {PackageManagerAPT, PackageManagerDNF,
                                     PackageManagerYUM}
        IN  /\ bootErr <=> (~sudoOk \/ ~known)
            /\ ~sudoOk => result = "failed to obtain sudo access"
            /\ (sudoOk /\ ~known) => result = "unsupported package manager"
            /\ (sudoOk /\ known) =>
                  /\ Len(cmdRan) = 3
                  /\ cmdRan[3][1] = "update"
                  /\ TasksLaunched
            /\ ~(sudoOk /\ known) => Len(cmdRan) = 2

C21_Witness ==
    /\ LinuxPackageManagerRan
    /\ pkgManager = PackageManagerDNF
    /\ cmdRan = << <<"sudo", TRUE>>, <<"sudo", TRUE>>, <<"update", FALSE>> >>
    /\ ~bootErr
    /\ TasksLaunched

\* C22: when dependencies are missing and the user declines to install them,
\* the run exits with status 1 and has invoked none of InstallPackageManager,
\* InstallDependencies, FlashBoard; when the user declines the final flash or
\* hex generation, the run exits with status 0 and has invoked neither
\* FlashBoard nor GenerateHexFile.
C22_DeclineExits ==
    /\ exitAt = "declinedInstall" =>
          /\ exitCode = 1
          /\ missing # {}
          /\ prompts[Len(prompts)] = "installDeps"
          /\ Elems(calls) \cap ExternalActions = {}
    /\ exitAt \in {"declinedFlash", "declinedGenerate"} =>
          /\ exitCode = 0
          /\ prompts[Len(prompts)] \in {"flash", "generate"}
          /\ Elems(calls) \cap {"FlashBoard", "GenerateHexFile", "Verify"} = {}

C22_Witness ==
    /\ exitAt = "declinedInstall"
    /\ mainVariant = "board"
    /\ missing = {"uv"}
    /\ exitCode = 1

\* the total of the board-aware main: 4, plus 1 for a non-empty missing list,
\* plus 1 for a board that requires J-Link
BoardTotal ==
    4 + (IF missing # {} THEN 1 ELSE 0) + (IF requiresJLink THEN 1 ELSE 0)

\* C23: in the board-aware main the total step count, once computed after
\* CheckPrerequisites, is 4 plus 1 when the missing list is non-empty plus 1
\* when the selected board requires J-Link, and the final flash or generate
\* step is printed with a current step number equal to that total.
C23_BoardTotalSteps ==
    (mainVariant = "board" /\ "CheckPrerequisites" \in Elems(calls)
       /\ "CheckPrerequisites" \notin errs) =>
        /\ totalSteps = BoardTotal
        /\ \A i \in DOMAIN steps :
              steps[i] \in {"Flashing board", "Generating hex file"} =>
                  /\ i = Len(steps)
                  /\ shown[i] = <<BoardTotal, BoardTotal>>
                  /\ currentStep = BoardTotal

C23_Witness ==
    /\ mainVariant = "board"
    /\ steps # <<>>
    /\ steps[Len(steps)] = "Generating hex file"
    /\ missing = {"uv"}
    /\ ~requiresJLink
    /\ shown[Len(shown)] = <<5, 5>>

\* the removals a finished CleanDependencies attempted, by name
CleanAttempted == {cmdRan[i][1] : i \in DOMAIN cmdRan}

C25_VerifyFailureNotFatal ==
    "Verify" \in Elems(calls) =>
        /\ errs \cap {"FlashBoard", "GenerateHexFile"} = {}
        /\ Elems(calls) \cap {"FlashBoard", "GenerateHexFile"} # {}
        /\ calls[Len(calls)] = "PrintCompletionBanner"
        /\ exitCode = 0
        /\ exitAt = "completed"

C25_Witness ==
    /\ "Verify" \in errs
    /\ "FlashBoard" \in Elems(calls)
    /\ mainVariant = "fixed"
    /\ calls[Len(calls)] = "PrintCompletionBanner"
    /\ exitCode = 0

\* C26: once the install goroutines are launched and both install actions
\* return, InstallDependencies returns; a goroutine never finds the channel
\* full when it sends its error, the channel holds at most two errors, it is
\* closed only after both goroutines have finished, and nothing is sent on it
\* once it is closed.
C26_InstallDependenciesTerminates ==
    /\ TasksLaunched ~> (ipc = "done" /\ result # "none")
    /\ [](/\ Len(errChan) <= 2
          /\ \A t \in Tasks : tpc[t] # "sending"
          /\ errClosed => \A t \in Tasks : tpc[t] = "done")
    /\ [][errClosed => Len(errChan') <= Len(errChan)]_vars

C26_Witness ==
    /\ ipc = "done"
    /\ failed = {"uv"}
    /\ notices = {"segger-jlink"}
    /\ errClosed
    /\ result = TaskError("uv")

\* C27: the "Invalid configuration" exit is unreachable: whenever
\* PromptForConfig returns without error its OrgID and APIToken are non-empty,
\* the board id taken from the selected AvailableBoards entry is non-empty,
\* and Config.Validate, called after the board selection, returns nil.
C27_ValidateNeverFails ==
    /\ (cpc = "returned" /\ cfgErr = Nil) =>
          (cfgOrgID # <<>> /\ cfgAPIToken # <<>>)
    /\ "Validate" \in Elems(calls) =>
          /\ cfgBoard # <<>>
          /\ cfgBoard = selectedBoard
          /\ validateErr = Nil
          /\ "Validate" \notin errs
    /\ exitAt # "Validate"

C27_Witness ==
    /\ mainVariant = "fixed"
    /\ cfgVariant = "prompt"
    /\ "Validate" \in Elems(calls)
    /\ validateErr = Nil
    /\ cfgOrgID = StrBadOrg
    /\ cfgAPIToken = StrShortToken
    /\ mpc = "checkPrereq"

\* C28 (as stated): PromptChoice returns only an index from 0 to
\* len(options) - 1, and a response returns exactly when it is an integer
\* between 1 and len(options); every other response is followed by a
\* re-prompt.
C28_OnlyIntegersReturn ==
    /\ chPc = "returned" => chRet \in 0..(chOptions - 1)
    /\ \A i \in DOMAIN chLines :
          LET whole == SscanfWholeLine(TrimSpace(chLines[i]))
          IN  /\ (whole.ok /\ whole.n >= 1 /\ whole.n <= chOptions) <=>
                    (i = Len(chLines) /\ chPc = "returned")
              /\ (i = Len(chLines) /\ chPc = "returned") =>
                    chRet = whole.n - 1

\* the runs of the Homebrew installation script so far
BrewScriptRuns == {i \in DOMAIN cmdRan : cmdRan[i][1] = "brewScript"}

\* C29: on macOS the Homebrew installation script runs at most once in a run
\* of main: InstallPackageManager is called only when Homebrew was reported
\* missing, runs the script only when brew is not on the path, and after it
\* has succeeded brew is on the path, so that InstallDependencies does not
\* bootstrap again.
C29_BrewScriptAtMostOnce ==
    /\ [](Cardinality(BrewScriptRuns) <= 1)
    /\ []("InstallPackageManager" \in Elems(calls) =>
             (goos = "darwin" /\ "Homebrew" \in missing))
    /\ [][(mpc = "installPM" /\ commandExists("brew")) =>
             cmdRan' = cmdRan]_vars
    /\ [][(mpc = "installDeps" /\ BrewScriptRuns # {}) =>
             (commandExists("brew") /\ cmdRan' = cmdRan)]_vars

C29_Witness ==
    /\ goos = "darwin"
    /\ cmdRan = << <<"sudo", TRUE>>, <<"brewScript", TRUE>> >>
    /\ "InstallDependencies" \in Elems(calls)
    /\ "InstallDependencies" \notin errs
    /\ mpc \notin {"installPM", "installDeps"}

\* C30: on Linux installJLink is never invoked while pkgManager is
\* PackageManagerUnknown: InstallDependencies returns the error of
\* ensureSudoAccess or of InstallPackageManager before any install goroutine
\* is started, so the format installJLink picks is never the TGZ archive.
C30_NoJLinkWithoutPackageManager ==
    /\ (goos = "linux" /\ pkgManager = PackageManagerUnknown) =>
          /\ ~TasksLaunched
          /\ invoked = {}
          /\ ipc = "done" =>
                /\ bootErr
                /\ result \in {"failed to obtain sudo access",
                                "unsupported package manager"}
    /\ (goos = "linux" /\ "segger-jlink" \in invoked) =>
          JLinkFormat(pkgManager) \in {"deb", "rpm"}

C30_Witness ==
    /\ goos = "linux"
    /\ pkgManager = PackageManagerUnknown
    /\ ipc = "done"
    /\ result = "unsupported package manager"
    /\ cmdRan = << <<"sudo", TRUE>>, <<"sudo", TRUE>> >>
    /\ invoked = {}

\* the same host in main: CheckPrerequisites returns its error and main exits
\* before it calls InstallPackageManager or InstallDependencies
MainStopsWithoutPackageManager ==
    (goos = "linux" /\ detectPackageManager(path) = PackageManagerUnknown) =>
       /\ Elems(calls) \cap {"InstallPackageManager", "InstallDependencies"} = {}
       /\ "CheckPrerequisites" \in Elems(calls) =>
             (mpc = "exited" /\ exitCode = 1)

=============================================================================
